---- MODULE Spec2Model ----
(***************************************************************************)
(* Model of infisical-envs/scripts/sync_to_infisical.py: the client that   *)
(* reconciles local .env files against a remote secret store.              *)
(*                                                                         *)
(* A path string is the sequence of its tokens, a token being "/" or a     *)
(* name: "/a/b" is <<"/", "a", "/", "b">>, "/" is <<"/">>, "" is <<>>.     *)
(* The remote keys its content by the non-empty segments of a path.        *)
(* Every handler is an operator over a store record                        *)
(*   st = [folders, secrets, imports, envs, log, F, token]                 *)
(* where log is the sequence of remote calls issued so far, F is the set   *)
(* of call positions at which the transport fails (the n-th remote call    *)
(* of an operation fails iff n \in F) and token tells whether the client   *)
(* holds an access token.                                                  *)
(***************************************************************************)
EXTENDS Integers, Sequences, FiniteSets, Bags, TLC

VARIABLES
    renvs,      \* remote: set of environment slugs
    rfolders,   \* remote: bag of <<env, path>>, one copy per folder
    rsecrets,   \* remote: function <<env, path, key>> -> value (present keys only)
    rimports,   \* remote: bag of <<env, path, importEnv, importPath>>
    calls,      \* remote calls issued by the last operation, in order
    last        \* the last operation: its arguments, pre-state and result

vars == <<renvs, rfolders, rsecrets, rimports, calls, last>>

\* ------------------------------------------------------------------ bounds

MaxLines == 2   \* lines of a local .env file
MaxDepth == 2   \* segments of a remote folder path
MaxRuns == 2    \* consecutive runs of main

\* ---------------------------------------------------------------- universe

Keys == {"A", "B", "C"}
Vals == {"1", "2"}

EmptyMap == [x \in {} |-> ""]

KvLine(k, v) == [kind |-> "kv", key |-> k, value |-> v]
CommentLine == [kind |-> "comment", key |-> "", value |-> ""]
TextLine == [kind |-> "text", key |-> "", value |-> ""]
EmptyKeyLine == KvLine("", "1")

Lines == {KvLine(k, v) : k \in Keys, v \in Vals} \cup {CommentLine, TextLine, EmptyKeyLine}
Files == UNION {[1..n -> Lines] : n \in 0..MaxLines}

ZeroStats == [created |-> 0, updated |-> 0, unchanged |-> 0, failed |-> 0]

\* ------------------------------------------------------------ path strings

RECURSIVE lstrip(_)
lstrip(p) == IF p # <<>> /\ Head(p) = "/" THEN lstrip(Tail(p)) ELSE p

RECURSIVE rstrip(_)
rstrip(p) == IF p # <<>> /\ p[Len(p)] = "/" THEN rstrip(SubSeq(p, 1, Len(p) - 1)) ELSE p

\* str.strip("/")
strip(p) == rstrip(lstrip(p))

HasSlash(p) == \E i \in DOMAIN p : p[i] = "/"

\* The string of a token sequence without "/": the empty string or one name
Name(p) == IF p = <<>> THEN "" ELSE p[1]
Tokens(name) == IF name = "" THEN <<>> ELSE <<name>>

\* str.split("/")
RECURSIVE split(_)
split(p) ==
    IF ~HasSlash(p) THEN <<Name(p)>>
    ELSE LET i == CHOOSE j \in DOMAIN p : p[j] = "/" /\ \A k \in 1..(j - 1) : p[k] # "/"
         IN  <<Name(SubSeq(p, 1, i - 1))>> \o split(SubSeq(p, i + 1, Len(p)))

\* "/".join(parts)
RECURSIVE join(_)
join(parts) ==
    IF parts = <<>> THEN <<>>
    ELSE IF Len(parts) = 1 THEN Tokens(parts[1])
    ELSE Tokens(parts[1]) \o <<"/">> \o join(Tail(parts))

\* The folder a path string names in the remote: its non-empty segments
Canon(p) == SelectSeq(split(p), LAMBDA x : x # "")

\* ------------------------------------------------------- remote store calls

Entry(op, env, path, name) ==
    [op |-> op, env |-> env, path |-> path, name |-> name, ipath |-> <<>>, ok |-> TRUE]

\* resp.raise_for_status(): the call at this position fails in transport
Fails(st) == (Len(st.log) + 1) \in st.F

Logged(st, e) == [st EXCEPT !.log = Append(@, e)]

\* The token property: the login request is made when no token is cached.
login(st, ok) ==
    [st |-> [Logged(st, [Entry("login", "", <<>>, "") EXCEPT !.ok = ok]) EXCEPT !.token = ok],
     ok |-> ok]

\* Mutant: the token is fetched for every request.
token_fetched_each_time(st) == login(st, ~Fails(st))

token(st) == IF st.token THEN [st |-> st, ok |-> TRUE] ELSE login(st, ~Fails(st))

\* The request itself, once the token is there (a = the outcome of token)
Sent(a, e, ok) ==
    IF ~a.ok THEN [st |-> a.st, ok |-> FALSE]
    ELSE [st |-> Logged(a.st, [e EXCEPT !.ok = ok /\ ~Fails(a.st)]), ok |-> ok /\ ~Fails(a.st)]

\* One request with the bearer token: it succeeds unless the transport fails
\* or the remote refuses it (accept is the remote's own condition).
Request(st, e, accept) == Sent(token(st), e, accept)

\* The outcome of a reading request r: the value the remote answers with
Listed(r, val, none) == [st |-> r.st, ok |-> r.ok, val |-> IF r.ok THEN val ELSE none]

\* The outcome of a writing request r: the remote's field takes its new value
Stored(r, field, value) ==
    [st |-> IF r.ok THEN [r.st EXCEPT ![field] = value] ELSE r.st, ok |-> r.ok]

get_project(st) == Listed(Request(st, Entry("get_project", "", <<>>, ""), TRUE), st.envs, {})

list_environments(st) == get_project(st)

create_environment(st, slug) ==
    Stored(Request(st, Entry("create_environment", slug, <<>>, ""), slug \notin st.envs),
           "envs", st.envs \cup {slug})

\* The remote drops an environment together with its content.
Dropped(r, st, slug) ==
    [st |-> IF r.ok THEN
                [r.st EXCEPT
                    !.envs = @ \ {slug},
                    !.folders = [f \in {g \in BagToSet(st.folders) : g[1] # slug} |-> @[f]],
                    !.imports = [i \in {j \in BagToSet(st.imports) : j[1] # slug} |-> @[i]],
                    !.secrets = [t \in {u \in DOMAIN @ : u[1] # slug} |-> @[t]]]
            ELSE r.st,
     ok |-> r.ok]

delete_environment(st, slug) ==
    Dropped(Request(st, Entry("delete_environment", slug, <<>>, ""), slug \in st.envs),
            st, slug)

list_folders(st, environment, path) ==
    Listed(Request(st, Entry("list_folders", environment, path, ""), environment \in st.envs),
           {f[2][Len(f[2])] : f \in {g \in BagToSet(st.folders) :
                                       /\ g[1] = environment /\ g[2] # <<>>
                                       /\ SubSeq(g[2], 1, Len(g[2]) - 1) = Canon(path)}},
           {})

create_folder(st, environment, name, path) ==
    Stored(Request(st, Entry("create_folder", environment, path, name),
                   environment \in st.envs),
           "folders", st.folders (+) SetToBag({<<environment, Append(Canon(path), name)>>}))

list_secrets(st, environment, path) ==
    Listed(Request(st, Entry("list_secrets", environment, path, ""), environment \in st.envs),
           [k \in {t[3] : t \in {u \in DOMAIN st.secrets :
                                   u[1] = environment /\ u[2] = Canon(path)}} |->
               st.secrets[<<environment, Canon(path), k>>]],
           EmptyMap)

\* Where the remote keeps the secret key of (environment, path)
At(environment, path, key) == <<environment, Canon(path), key>>

create_secret(st, environment, key, value, path) ==
    Stored(Request(st, Entry("create_secret", environment, path, key),
                   /\ environment \in st.envs
                   /\ At(environment, path, key) \notin DOMAIN st.secrets),
           "secrets", (At(environment, path, key) :> value) @@ st.secrets)

update_secret(st, environment, key, value, path) ==
    Stored(Request(st, Entry("update_secret", environment, path, key),
                   /\ environment \in st.envs
                   /\ At(environment, path, key) \in DOMAIN st.secrets),
           "secrets", (At(environment, path, key) :> value) @@ st.secrets)

delete_secret(st, environment, key, path) ==
    Stored(Request(st, Entry("delete_secret", environment, path, key),
                   /\ environment \in st.envs
                   /\ At(environment, path, key) \in DOMAIN st.secrets),
           "secrets", [t \in DOMAIN st.secrets \ {At(environment, path, key)} |->
                          st.secrets[t]])

\* An import edge of (environment, path) is <<environment, path, importEnv, importPath>>
list_secret_imports(st, environment, path) ==
    Listed(Request(st, Entry("list_secret_imports", environment, path, ""),
                   environment \in st.envs),
           {<<i[3], i[4]>> : i \in {j \in BagToSet(st.imports) :
                                      j[1] = environment /\ j[2] = Canon(path)}},
           {})

create_secret_import(st, environment, path, import_env, import_path) ==
    Stored(Request(st, [Entry("create_secret_import", environment, path, import_env)
                           EXCEPT !.ipath = import_path],
                   environment \in st.envs /\ import_env \in st.envs),
           "imports", st.imports (+) SetToBag(
                          {<<environment, Canon(path), import_env, import_path>>}))

\* ---------------------------------------------------------- folder paths

\* Mutant: the membership test is lost and every segment is created.
is_missing_always(part, existing_names) == TRUE

\* line 208: part not in existing_names
is_missing(part, existing_names) == part \notin existing_names

\* Mutant: the loop does not descend, every segment is created under "/".
descend_stay(current_path, part) == current_path

\* line 212: current_path = f"{current_path}{part}/"
descend(current_path, part) == current_path \o Tokens(part) \o <<"/">>

\* The loop over parts (lines 204-212), from parts[i] on
RECURSIVE ensure_loop(_, _, _, _, _)

\* lines 209-212: c is the outcome of create_folder
ensure_created(c, environment, parts, i, current_path) ==
    IF ~c.ok THEN [st |-> c.st, raised |-> TRUE]
    ELSE ensure_loop(c.st, environment, parts, i + 1, descend(current_path, parts[i]))

\* lines 205-212: existing is the outcome of list_folders
ensure_part(existing, environment, parts, i, current_path) ==
    IF ~existing.ok THEN [st |-> existing.st, raised |-> TRUE]
    ELSE IF is_missing(parts[i], existing.val) THEN
        ensure_created(create_folder(existing.st, environment, parts[i], current_path),
                       environment, parts, i, current_path)
    ELSE ensure_loop(existing.st, environment, parts, i + 1,
                     descend(current_path, parts[i]))

ensure_loop(st, environment, parts, i, current_path) ==
    IF i > Len(parts) THEN [st |-> st, raised |-> FALSE]
    ELSE ensure_part(list_folders(st, environment, current_path),
                     environment, parts, i, current_path)

ensure_folder_path(st, environment, folder_path) ==
    IF folder_path = <<"/">> \/ folder_path = <<>> THEN [st |-> st, raised |-> FALSE]
    ELSE ensure_loop(st, environment, split(strip(folder_path)), 1, <<"/">>)

\* ------------------------------------------------------------ local files

RECURSIVE parse_env_file(_)
parse_env_file(env_file) ==
    IF env_file = <<>> THEN [keys |-> <<>>, val |-> EmptyMap]
    ELSE LET n == Len(env_file)
             rest == parse_env_file(SubSeq(env_file, 1, n - 1))
             line == env_file[n]
         IN  IF line.kind = "comment" THEN rest
             ELSE IF line.kind # "kv" THEN rest
             ELSE IF line.key = "" THEN rest
             ELSE [keys |-> IF line.key \in DOMAIN rest.val THEN rest.keys
                            ELSE Append(rest.keys, line.key),
                   val |-> (line.key :> line.value) @@ rest.val]

\* ------------------------------------------------------------- reconciler

Bump(stats, field) == [stats EXCEPT ![field] = @ + 1]

\* Mutant: the secret record itself is compared with the value, never equal.
needs_update_record(existing, key, value) == TRUE

\* line 297: existing[key].get("secretValue") != value
needs_update(existing, key, value) == existing[key] # value

\* Mutant: the preview prints the key and forgets to count it.
previewed_uncounted(acc, field, tag, key) ==
    [acc EXCEPT !.printed = Append(@, <<tag, key>>)]

\* The dry-run branch of a write (lines 298-299, 308-309) and the count after it
previewed(acc, field, tag, key) ==
    [acc EXCEPT !.printed = Append(@, <<tag, key>>), !.stats = Bump(@, field)]

\* Mutant: the count is taken before the call, so a failed write counts twice.
applied_counted_first(acc, w, field, tag, key) ==
    IF w.ok THEN
        [st |-> w.st, stats |-> Bump(acc.stats, field),
         printed |-> Append(acc.printed, <<tag, key>>)]
    ELSE
        [st |-> w.st, stats |-> Bump(Bump(acc.stats, field), "failed"),
         printed |-> Append(acc.printed, <<"failed", key>>)]

\* The outcome of a write call w inside the try block: counted after the call
\* returned (lines 301-303, 311-313), or caught and counted failed (314-316)
applied(acc, w, field, tag, key) ==
    IF w.ok THEN
        [st |-> w.st, stats |-> Bump(acc.stats, field),
         printed |-> Append(acc.printed, <<tag, key>>)]
    ELSE
        [st |-> w.st, stats |-> Bump(acc.stats, "failed"),
         printed |-> Append(acc.printed, <<"failed", key>>)]

\* Mutant: the update sends the value read from the remote, not the desired one.
write_update_stale(acc, key, value, c) ==
    IF c.dry_run THEN previewed(acc, "updated", "will_update", key)
    ELSE applied(acc, update_secret(acc.st, c.environment, key, c.existing[key], c.path),
                 "updated", "update", key)

write_update(acc, key, value, c) ==
    IF c.dry_run THEN previewed(acc, "updated", "will_update", key)
    ELSE applied(acc, update_secret(acc.st, c.environment, key, value, c.path),
                 "updated", "update", key)

\* Mutant: a create that failed is sent once more.
write_create_retried(acc, key, value, c) ==
    IF c.dry_run THEN previewed(acc, "created", "will_create", key)
    ELSE LET w == create_secret(acc.st, c.environment, key, value, c.path)
         IN  applied(acc,
                     IF w.ok THEN w
                     ELSE create_secret(w.st, c.environment, key, value, c.path),
                     "created", "create", key)

write_create(acc, key, value, c) ==
    IF c.dry_run THEN previewed(acc, "created", "will_create", key)
    ELSE applied(acc, create_secret(acc.st, c.environment, key, value, c.path),
                 "created", "create", key)

\* One iteration of the loop over secrets.items(): acc = [st, stats, printed]
reconcile_key(acc, key, value, c) ==
    IF key \in DOMAIN c.existing THEN
        IF needs_update(c.existing, key, value) THEN write_update(acc, key, value, c)
        ELSE [acc EXCEPT !.stats = Bump(@, "unchanged")]
    ELSE write_create(acc, key, value, c)

\* Mutant: the first failed write ends the loop (no try around the write).
RECURSIVE reconcile_loop_abort(_, _, _)
reconcile_loop_abort(acc, i, c) ==
    IF i > Len(c.secrets.keys) \/ acc.stats.failed > 0 THEN acc
    ELSE LET key == c.secrets.keys[i]
         IN  reconcile_loop_abort(reconcile_key(acc, key, c.secrets.val[key], c), i + 1, c)

\* Mutant: a mirroring sync, which deletes the keys the file does not define.
RECURSIVE prune(_, _, _)
prune(st, gone, c) ==
    IF gone = {} THEN st
    ELSE LET k == CHOOSE x \in gone : TRUE
         IN  prune(delete_secret(st, c.environment, k, c.path).st, gone \ {k}, c)

RECURSIVE reconcile_loop_mirror(_, _, _)
reconcile_loop_mirror(acc, i, c) ==
    IF i > Len(c.secrets.keys) THEN
        IF c.dry_run THEN acc
        ELSE [acc EXCEPT !.st = prune(@, DOMAIN c.existing \ DOMAIN c.secrets.val, c)]
    ELSE LET key == c.secrets.keys[i]
         IN  reconcile_loop_mirror(reconcile_key(acc, key, c.secrets.val[key], c), i + 1, c)

RECURSIVE reconcile_loop(_, _, _)
reconcile_loop(acc, i, c) ==
    IF i > Len(c.secrets.keys) THEN acc
    ELSE LET key == c.secrets.keys[i]
         IN  reconcile_loop(reconcile_key(acc, key, c.secrets.val[key], c), i + 1, c)

\* lines 291-318: the loop and what the function returns
returned_stats(r) == [st |-> r.st, ret |-> r.stats, raised |-> FALSE, printed |-> r.printed]

\* lines 288-318: l is the outcome of list_secrets, outside any try
reconcile_listed(l, secrets, environment, path, dry_run) ==
    IF ~l.ok THEN [st |-> l.st, ret |-> ZeroStats, raised |-> TRUE, printed |-> <<>>]
    ELSE returned_stats(reconcile_loop(
                            [st |-> l.st, stats |-> ZeroStats, printed |-> <<>>], 1,
                            [environment |-> environment, path |-> path,
                             dry_run |-> dry_run, secrets |-> secrets,
                             existing |-> l.val]))

\* lines 284-286: nothing is listed when the file defines no key
reconcile_parsed(st, secrets, environment, path, dry_run) ==
    IF secrets.keys = <<>> THEN
        [st |-> st, ret |-> ZeroStats, raised |-> FALSE, printed |-> <<>>]
    ELSE reconcile_listed(list_secrets(st, environment, path), secrets, environment, path,
                          dry_run)

set_secrets_from_env(st, environment, env_file, path, dry_run) ==
    reconcile_parsed(st, parse_env_file(env_file), environment, path, dry_run)

\* -------------------------------------------------------------- local tree

(***************************************************************************)
(* The local tree under V2_DIR is a function from the coordinates of its   *)
(* files (the sequence of names from V2_DIR down to the file) to their     *)
(* lines. A directory exists when a file lies beneath it.                  *)
(***************************************************************************)

\* Path.stem of the *.env file names of the model; the name ".env" has no
\* suffix and is its own stem
StemOf ==
    ("db.env" :> "db") @@ ("api.env" :> "api") @@ ("common.env" :> "common")
    @@ ("prod.env" :> "prod") @@ ("staging.env" :> "staging") @@ (".env" :> ".env")

\* glob("*.env")
is_env_file(name) == name \in DOMAIN StemOf
stem(name) == IF name \in DOMAIN StemOf THEN StemOf[name] ELSE name

\* subdir.name.startswith('.')
is_hidden(name) == name \in {".git"}

\* The names of the model in the order sorted() gives them
SortedNames ==
    <<".env", ".git", "api.env", "backend", "bi", "common", "common.env", "db.env", "nested",
      "prod", "prod.env", "services", "shared-secrets", "staging", "staging.env">>

\* Mutant: the names come in descending order.
sorted_descending(S) ==
    [i \in 1..Cardinality(S \cap {SortedNames[j] : j \in DOMAIN SortedNames}) |->
        SelectSeq(SortedNames, LAMBDA n : n \in S)[
            Cardinality(S \cap {SortedNames[j] : j \in DOMAIN SortedNames}) + 1 - i]]

sorted(S) == SelectSeq(SortedNames, LAMBDA n : n \in S)

Beneath(d, f) == Len(d) < Len(f) /\ SubSeq(f, 1, Len(d)) = d
is_dir(tree, d) == \E f \in DOMAIN tree : Beneath(d, f)
is_file(tree, f) == f \in DOMAIN tree
exists(tree, p) == is_file(tree, p) \/ is_dir(tree, p)
iterdir(tree, d) == {f[Len(d) + 1] : f \in {g \in DOMAIN tree : Beneath(d, g)}}

\* ------------------------------------------------------------- tree walker

Add(a, b) ==
    [created |-> a.created + b.created, updated |-> a.updated + b.updated,
     unchanged |-> a.unchanged + b.unchanged, failed |-> a.failed + b.failed]

\* What a walk has done so far: visited lists the reconcile calls that returned
Walk(st) == [st |-> st, raised |-> FALSE, ret |-> ZeroStats, visited |-> <<>>, processed |-> <<>>]

Visit(environment, path, stats) == [env |-> environment, path |-> path, stats |-> stats]

\* lines 506-507 and 564-565: the folder path is ensured, whatever dry_run
\* says, and the file is reconciled; an exception of either propagates
import_reconciled(acc, r, environment, target_path) ==
    IF r.raised THEN [acc EXCEPT !.st = r.st, !.raised = TRUE]
    ELSE [acc EXCEPT !.st = r.st,
                     !.ret = Add(@, r.ret),
                     !.visited = Append(@, Visit(environment, target_path, r.ret))]

import_ensured(acc, e, environment, env_file, target_path, dry_run) ==
    IF e.raised THEN [acc EXCEPT !.st = e.st, !.raised = TRUE]
    ELSE import_reconciled(
             acc, set_secrets_from_env(e.st, environment, env_file, target_path, dry_run),
             environment, target_path)

import_one(acc, environment, env_file, target_path, dry_run) ==
    import_ensured(acc, ensure_folder_path(acc.st, environment, target_path),
                   environment, env_file, target_path, dry_run)

\* lines 499-503
shared_target(base_path, folder_name) ==
    IF base_path = <<"/">> THEN <<"/">> \o Tokens(folder_name)
    ELSE rstrip(base_path) \o <<"/">> \o Tokens(folder_name)

\* The loop over sorted(base_dir.glob("*.env")), lines 495-511
RECURSIVE import_files_loop(_, _, _, _)
import_files_loop(acc, files, i, c) ==
    IF acc.raised \/ i > Len(files) THEN acc
    ELSE import_files_loop(
             import_one(acc, c.environment, c.tree[Append(c.base_dir, files[i])],
                        shared_target(c.base_path, stem(files[i])), c.dry_run),
             files, i + 1, c)

\* Mutant: the totals of a sub-walk replace those of the caller.
Merged_replaced(acc, sub) ==
    [st |-> sub.st, raised |-> sub.raised, ret |-> sub.ret,
     visited |-> acc.visited \o sub.visited, processed |-> acc.processed \o sub.processed]

\* A sub-walk's outcome merged into the caller's (lines 523-525, 620-623)
Merged(acc, sub) ==
    [st |-> sub.st, raised |-> sub.raised, ret |-> Add(acc.ret, sub.ret),
     visited |-> acc.visited \o sub.visited, processed |-> acc.processed \o sub.processed]

RECURSIVE import_env_files_recursive(_, _, _, _, _, _)

\* The loop over sorted(base_dir.iterdir()), lines 520-525
RECURSIVE import_dirs_loop(_, _, _, _)
import_dirs_loop(acc, dirs, i, c) ==
    IF acc.raised \/ i > Len(dirs) THEN acc
    ELSE import_dirs_loop(
             Merged(acc, import_env_files_recursive(
                             acc.st, c.tree, Append(c.base_dir, dirs[i]), c.environment,
                             rstrip(c.base_path) \o <<"/">> \o Tokens(dirs[i]), c.dry_run)),
             dirs, i + 1, c)

import_env_files_recursive(st, tree, base_dir, environment, base_path, dry_run) ==
    IF ~exists(tree, base_dir) THEN Walk(st)
    ELSE LET c == [tree |-> tree, base_dir |-> base_dir, environment |-> environment,
                   base_path |-> base_path, dry_run |-> dry_run]
             files == sorted({n \in iterdir(tree, base_dir) :
                                is_file(tree, Append(base_dir, n)) /\ is_env_file(n)})
             dirs == sorted({n \in iterdir(tree, base_dir) : is_dir(tree, Append(base_dir, n))})
         IN  import_dirs_loop(import_files_loop(Walk(st), files, 1, c), dirs, 1, c)

\* env_mapping of step 2, in the order of the dict
EnvDirs == <<"common", "prod", "staging">>

RECURSIVE step2_loop(_, _, _, _)
step2_loop(acc, i, tree, dry_run) ==
    IF acc.raised \/ i > Len(EnvDirs) THEN acc
    ELSE LET env_dir == <<"shared-secrets", EnvDirs[i]>>
         IN  step2_loop(
                 IF exists(tree, env_dir)
                 THEN Merged(acc, import_env_files_recursive(
                                      acc.st, tree, env_dir, EnvDirs[i],
                                      <<"/", "shared-secrets">>, dry_run))
                 ELSE acc,
                 i + 1, tree, dry_run)

step2_import_shared_secrets(st, tree, dry_run) == step2_loop(Walk(st), 1, tree, dry_run)

\* The environment files of a service directory, in the order lines 594-607 take them
ServiceEnvs == <<"common", "prod", "staging">>
ServiceFile == ("common" :> "common.env") @@ ("prod" :> "prod.env") @@ ("staging" :> "staging.env")

\* lines 594-607: import_service_env for each of the files that exists
RECURSIVE import_service_envs(_, _, _)
import_service_envs(acc, i, c) ==
    IF acc.raised \/ i > Len(ServiceEnvs) THEN acc
    ELSE LET env_file == Append(c.service_dir, ServiceFile[ServiceEnvs[i]])
         IN  import_service_envs(
                 IF is_file(c.tree, env_file)
                 THEN import_one(acc, ServiceEnvs[i], c.tree[env_file], c.base_path, c.dry_run)
                 ELSE acc,
                 i + 1, c)

\* lines 609-614
service_entry(tree, service_dir, base_path) ==
    [path |-> base_path,
     has_common |-> exists(tree, Append(service_dir, "common.env")),
     has_prod |-> exists(tree, Append(service_dir, "prod.env")),
     has_staging |-> exists(tree, Append(service_dir, "staging.env"))]

is_service_dir(tree, service_dir) ==
    \E e \in DOMAIN ServiceFile : exists(tree, Append(service_dir, ServiceFile[e]))

RECURSIVE import_service_dir(_, _, _, _, _)

\* The loop over sorted(service_dir.iterdir()), lines 617-623
RECURSIVE import_subservices_loop(_, _, _, _)
import_subservices_loop(acc, dirs, i, c) ==
    IF acc.raised \/ i > Len(dirs) THEN acc
    ELSE import_subservices_loop(
             Merged(acc, import_service_dir(acc.st, c.tree, Append(c.service_dir, dirs[i]),
                                            c.base_path \o <<"/">> \o Tokens(dirs[i]),
                                            c.dry_run)),
             dirs, i + 1, c)

\* lines 609-614: the service is recorded once its files are imported
processed_service(w, tree, service_dir, base_path) ==
    IF w.raised THEN w
    ELSE [w EXCEPT !.processed = <<service_entry(tree, service_dir, base_path)>>]

\* lines 590-614: the directory's own files, when it has any
import_own(st, c) ==
    IF is_service_dir(c.tree, c.service_dir)
    THEN processed_service(import_service_envs(Walk(st), 1, c),
                           c.tree, c.service_dir, c.base_path)
    ELSE Walk(st)

service_subdirs(tree, service_dir) ==
    sorted({n \in iterdir(tree, service_dir) :
              is_dir(tree, Append(service_dir, n)) /\ ~is_hidden(n)})

import_service_walk(st, c) ==
    import_subservices_loop(import_own(st, c), service_subdirs(c.tree, c.service_dir), 1, c)

import_service_dir(st, tree, service_dir, base_path, dry_run) ==
    import_service_walk(st, [tree |-> tree, service_dir |-> service_dir,
                             base_path |-> base_path, dry_run |-> dry_run])

\* The loop of step 3 over sorted(services_dir.iterdir()), lines 638-649
RECURSIVE step3_loop(_, _, _, _, _)
step3_loop(acc, dirs, i, tree, dry_run) ==
    IF acc.raised \/ i > Len(dirs) THEN acc
    ELSE step3_loop(
             IF is_dir(tree, <<"services", dirs[i]>>)
             THEN Merged(acc, import_service_dir(acc.st, tree, <<"services", dirs[i]>>,
                                                 <<"/", "services", "/">> \o Tokens(dirs[i]),
                                                 dry_run))
             ELSE acc,
             dirs, i + 1, tree, dry_run)

step3_import_services(st, tree, dry_run) ==
    step3_loop(Walk(st), sorted(iterdir(tree, <<"services">>)), 1, tree, dry_run)

\* scan_dir of scan_services_for_imports, lines 659-678
RECURSIVE scan_dir(_, _, _)
RECURSIVE scan_dirs(_, _, _, _, _)
scan_dirs(tree, service_dir, base_path, dirs, i) ==
    IF i > Len(dirs) THEN <<>>
    ELSE scan_dir(tree, Append(service_dir, dirs[i]), base_path \o <<"/">> \o Tokens(dirs[i]))
         \o scan_dirs(tree, service_dir, base_path, dirs, i + 1)

scan_dir(tree, service_dir, base_path) ==
    (IF is_service_dir(tree, service_dir)
     THEN <<service_entry(tree, service_dir, base_path)>> ELSE <<>>)
    \o scan_dirs(tree, service_dir, base_path, service_subdirs(tree, service_dir), 1)

RECURSIVE scan_top(_, _, _)
scan_top(tree, dirs, i) ==
    IF i > Len(dirs) THEN <<>>
    ELSE (IF is_dir(tree, <<"services", dirs[i]>>)
          THEN scan_dir(tree, <<"services", dirs[i]>>,
                        <<"/", "services", "/">> \o Tokens(dirs[i]))
          ELSE <<>>)
         \o scan_top(tree, dirs, i + 1)

scan_services_for_imports(tree) == scan_top(tree, sorted(iterdir(tree, <<"services">>)), 1)

\* ------------------------------------------------------------ import edges

\* Mutant: the listed edges are never recognised.
has_import_never(existing, import_env, import_path) == FALSE

\* Mutant: only the source environment of a listed edge is compared.
has_import_by_env(existing, import_env, import_path) ==
    \E e \in existing : e[1] = import_env

\* lines 388-391: an edge with this source environment and path is listed
has_import(existing, import_env, import_path) == <<import_env, import_path>> \in existing

\* lines 393-394: c is the outcome of create_secret_import
import_created(c) == [st |-> c.st, raised |-> ~c.ok, ret |-> c.ok]

\* lines 388-394: existing is the outcome of list_secret_imports
import_listed(existing, environment, path, import_env, import_path) ==
    IF ~existing.ok THEN [st |-> existing.st, raised |-> TRUE, ret |-> FALSE]
    ELSE IF has_import(existing.val, import_env, import_path)
         THEN [st |-> existing.st, raised |-> FALSE, ret |-> FALSE]
    ELSE import_created(create_secret_import(existing.st, environment, path,
                                             import_env, import_path))

ensure_secret_import(st, environment, path, import_env, import_path) ==
    import_listed(list_secret_imports(st, environment, path),
                  environment, path, import_env, import_path)

ZeroImports == [created |-> 0, unchanged |-> 0]

\* lines 716-724 and 741-749: the dry run only looks the edge up
link_previewed(acc, existing, service_path) ==
    IF ~existing.ok THEN [acc EXCEPT !.st = existing.st, !.raised = TRUE]
    ELSE IF has_import(existing.val, "common", service_path)
         THEN [acc EXCEPT !.st = existing.st, !.imports.unchanged = @ + 1]
    ELSE [acc EXCEPT !.st = existing.st, !.imports.created = @ + 1]

\* lines 726-735 and 751-759
link_applied(acc, e) ==
    IF e.raised THEN [acc EXCEPT !.st = e.st, !.raised = TRUE]
    ELSE IF e.ret THEN [acc EXCEPT !.st = e.st, !.imports.created = @ + 1]
    ELSE [acc EXCEPT !.st = e.st, !.imports.unchanged = @ + 1]

\* lines 713-735 and 738-759: the edge (environment, path) <- (common, path)
link_common(acc, environment, service_path, dry_run) ==
    IF dry_run
    THEN link_previewed(acc, list_secret_imports(acc.st, environment, service_path),
                        service_path)
    ELSE link_applied(acc, ensure_secret_import(acc.st, environment, service_path,
                                                "common", service_path))

\* Mutant: the staging edge is set up whether or not the service has a
\* common file.
link_staging_without_common(p, svc, dry_run) ==
    IF svc.has_staging /\ ~p.raised
    THEN link_common(p, "staging", svc.path, dry_run) ELSE p

\* lines 738-759: the staging edge of a service
link_staging(p, svc, dry_run) ==
    IF svc.has_common /\ svc.has_staging /\ ~p.raised
    THEN link_common(p, "staging", svc.path, dry_run) ELSE p

\* lines 713-735: the prod edge of a service
link_prod(acc, svc, dry_run) ==
    IF svc.has_common /\ svc.has_prod
    THEN link_common(acc, "prod", svc.path, dry_run) ELSE acc

\* The loop over services, lines 701-759: acc = [st, raised, imports]
RECURSIVE step4_loop(_, _, _, _)
step4_loop(acc, services, i, dry_run) ==
    IF acc.raised \/ i > Len(services) THEN acc
    ELSE step4_loop(link_staging(link_prod(acc, services[i], dry_run), services[i], dry_run),
                    services, i + 1, dry_run)

step4_setup_service_imports(st, services, dry_run) ==
    step4_loop([st |-> st, raised |-> FALSE, imports |-> ZeroImports], services, 1, dry_run)

\* ------------------------------------------------------------ environments

TargetEnvs == <<"common", "prod", "staging">>

\* line 470: c is the outcome of create_environment, outside any try
env_created(c) == [st |-> c.st, raised |-> ~c.ok]

\* A variant that sets up every target environment anew
RECURSIVE step1_loop_reset(_, _, _, _)
step1_loop_reset(acc, i, existing_slugs, dry_run) ==
    IF acc.raised \/ i > Len(TargetEnvs) THEN acc
    ELSE step1_loop_reset(
             IF dry_run THEN acc
             ELSE env_created(create_environment(
                      delete_environment(acc.st, TargetEnvs[i]).st, TargetEnvs[i])),
             i + 1, existing_slugs, dry_run)

\* lines 463-471
RECURSIVE step1_loop(_, _, _, _)
step1_loop(acc, i, existing_slugs, dry_run) ==
    IF acc.raised \/ i > Len(TargetEnvs) THEN acc
    ELSE step1_loop(
             IF TargetEnvs[i] \in existing_slugs \/ dry_run THEN acc
             ELSE env_created(create_environment(acc.st, TargetEnvs[i])),
             i + 1, existing_slugs, dry_run)

\* lines 453-461: a failure to delete dev is caught and printed
without_dev(st, existing_slugs, dry_run) ==
    IF "dev" \in existing_slugs /\ ~dry_run THEN delete_environment(st, "dev").st ELSE st

\* lines 449-471: existing is the outcome of list_environments
step1_listed(existing, dry_run) ==
    IF ~existing.ok THEN [st |-> existing.st, raised |-> TRUE]
    ELSE step1_loop([st |-> without_dev(existing.st, existing.val, dry_run),
                     raised |-> FALSE],
                    1, existing.val, dry_run)

step1_setup_environments(st, dry_run) == step1_listed(list_environments(st), dry_run)

\* -------------------------------------------------------------------- main

\* What a run reports: status is "done", "exit" (sys.exit(1) at line 1121) or
\* "crash" (an exception nobody catches)
Report(st, status, shared, services, imports) ==
    [st |-> st, status |-> status, shared |-> shared, services |-> services,
     imports |-> imports]

NoWalk == [ret |-> ZeroStats, visited |-> <<>>, processed |-> <<>>, raised |-> FALSE]
Status(raised) == IF raised THEN "crash" ELSE "done"

\* lines 1185-1188 (and 1171-1174): each step runs when the one before returned
full_sync_step4(s4, s2, s3) == Report(s4.st, Status(s4.raised), s2, s3, s4.imports)

full_sync_step3(s3, s2, dry_run) ==
    IF s3.raised THEN Report(s3.st, "crash", s2, s3, ZeroImports)
    ELSE full_sync_step4(step4_setup_service_imports(s3.st, s3.processed, dry_run), s2, s3)

\* Mutant: the import edges are set up before the services are imported.
full_sync_imports_first(s2, tree, dry_run) ==
    IF s2.raised THEN Report(s2.st, "crash", s2, NoWalk, ZeroImports)
    ELSE full_sync_step3(
             step3_import_services(
                 step4_setup_service_imports(s2.st, scan_services_for_imports(tree),
                                             dry_run).st,
                 tree, dry_run),
             s2, dry_run)

full_sync_step2(s2, tree, dry_run) ==
    IF s2.raised THEN Report(s2.st, "crash", s2, NoWalk, ZeroImports)
    ELSE full_sync_step3(step3_import_services(s2.st, tree, dry_run), s2, dry_run)

full_sync_step1(s1, tree, dry_run) ==
    IF s1.raised THEN Report(s1.st, "crash", NoWalk, NoWalk, ZeroImports)
    ELSE full_sync_step2(step2_import_shared_secrets(s1.st, tree, dry_run), tree, dry_run)

full_sync(st, tree, dry_run) ==
    full_sync_step1(step1_setup_environments(st, dry_run), tree, dry_run)

\* What a run of one step reports
only_step1(s1) == Report(s1.st, Status(s1.raised), NoWalk, NoWalk, ZeroImports)
only_step2(s2) == Report(s2.st, Status(s2.raised), s2, NoWalk, ZeroImports)
only_step3(s3) == Report(s3.st, Status(s3.raised), NoWalk, s3, ZeroImports)
only_step4(s4) == Report(s4.st, Status(s4.raised), NoWalk, NoWalk, s4.imports)

\* lines 1175-1183
single_step(st, step, tree, dry_run) ==
    IF step = 1 THEN only_step1(step1_setup_environments(st, dry_run))
    ELSE IF step = 2 THEN only_step2(step2_import_shared_secrets(st, tree, dry_run))
    ELSE IF step = 3 THEN only_step3(step3_import_services(st, tree, dry_run))
    ELSE only_step4(step4_setup_service_imports(st, scan_services_for_imports(tree),
                                                 dry_run))

\* A variant that goes on when the connection test has failed
main_project_lenient(project, args, tree, dry_run) ==
    IF args.mode = "step" THEN single_step(project.st, args.step, tree, dry_run)
    ELSE full_sync(project.st, tree, dry_run)

\* lines 1116-1121 and 1163-1188: project is the outcome of get_project
main_project(project, args, tree, dry_run) ==
    IF ~project.ok THEN Report(project.st, "exit", NoWalk, NoWalk, ZeroImports)
    ELSE IF args.mode = "step" THEN single_step(project.st, args.step, tree, dry_run)
    ELSE full_sync(project.st, tree, dry_run)

\* args = [mode, step]: the flags of the command line
main(st, args, tree, dry_run) == main_project(get_project(st), args, tree, dry_run)

\* ------------------------------------------------------------------ state

\* The remote as a client that has already logged in finds it
Store(F) ==
    [envs |-> renvs, folders |-> rfolders, secrets |-> rsecrets, imports |-> rimports,
     log |-> <<>>, F |-> F, token |-> TRUE]

Install(st) ==
    /\ renvs' = st.envs
    /\ rfolders' = st.folders
    /\ rsecrets' = st.secrets
    /\ rimports' = st.imports
    /\ calls' = st.log

NoOp == [op |-> "none"]

\* The mode of the immediately preceding operation when it was the same
\* operation with the same arguments and returned normally, else "none".
Follows(op, args) ==
    IF last.op = op /\ last.args = args /\ ~last.raised
    THEN (IF last.dry_run THEN "preview" ELSE "apply")
    ELSE "none"

\* The caller is done with the result of the last operation.
Discard ==
    /\ last.op # "none"
    /\ last' = NoOp
    /\ calls' = <<>>
    /\ UNCHANGED <<renvs, rfolders, rsecrets, rimports>>

\* Remote content the operations of the model are never aimed at.
Bystanders ==
    (<<"prod", <<"svc">>, "A">> :> "1") @@ (<<"common", <<"svc", "sub">>, "C">> :> "2")
    @@ (<<"common", <<>>, "B">> :> "2")
BystanderFolders == SetToBag({<<"prod", <<"a">>>>, <<"prod", <<"svc">>>>})

Init ==
    /\ renvs = {"common", "prod", "staging"}
    /\ rfolders = BystanderFolders
    /\ rsecrets = Bystanders
    /\ rimports = EmptyBag
    /\ calls = <<>>
    /\ last = NoOp

\* ---------------------------------------------------------------- actions

RecEnv == "common"
RecPath == <<"/", "svc">>

Reconciled(environment, env_file, path, dry_run, F) ==
    LET r == set_secrets_from_env(Store(F), environment, env_file, path, dry_run)
        args == <<environment, env_file, path>>
        again == Follows("set_secrets_from_env", args)
    IN  /\ Install(r.st)
        /\ last' = [op |-> "set_secrets_from_env", args |-> args,
                    dry_run |-> dry_run, follows |-> again,
                    prev_ret |-> IF again = "none" THEN ZeroStats ELSE last.ret,
                    pre |-> rsecrets, ret |-> r.ret, raised |-> r.raised,
                    printed |-> r.printed]

\* Any pattern of failing calls: one listing and at most one write per desired key.
CallFailures(env_file) == SUBSET (1..(Len(parse_env_file(env_file).keys) + 1))

SetSecretsFromEnv ==
    /\ last.op = "none"
    /\ \E env_file \in Files, dry_run \in BOOLEAN :
         \E F \in CallFailures(env_file) :
            Reconciled(RecEnv, env_file, RecPath, dry_run, F)

\* A preview is followed directly by the real run with the same arguments.
SetSecretsFromEnvAgain ==
    /\ last.op = "set_secrets_from_env"
    /\ last.dry_run
    /\ \E F \in CallFailures(last.args[2]) :
          Reconciled(last.args[1], last.args[2], last.args[3], FALSE, F)

\* Folder paths of the model: up to MaxDepth segments, written "/a/b", "/a/b/" or "a/b"
FolderEnv == "common"
Segs == {"a", "b"}
SegLists == UNION {[1..n -> Segs] : n \in 0..MaxDepth}
FolderPaths ==
    {<<"/">> \o join(p) : p \in SegLists} \cup {join(p) : p \in SegLists}
    \cup {<<"/">> \o join(p) \o <<"/">> : p \in SegLists \ {<<>>}}

Ensured(environment, folder_path, F) ==
    LET r == ensure_folder_path(Store(F), environment, folder_path)
        args == <<environment, folder_path>>
    IN  /\ Install(r.st)
        /\ last' = [op |-> "ensure_folder_path", args |-> args, dry_run |-> FALSE,
                    follows |-> Follows("ensure_folder_path", args),
                    pre |-> rfolders, raised |-> r.raised]

\* The call raises at its first failing request: one failing position at most,
\* among one listing and one creation per segment.
FirstFailure(folder_path) == {{}} \cup {{n} : n \in 1..(2 * Len(Canon(folder_path)))}

EnsureFolderPath ==
    /\ last.op = "none"
    /\ \E folder_path \in FolderPaths :
         \E F \in FirstFailure(folder_path) : Ensured(FolderEnv, folder_path, F)

\* The same call once again, directly after one that returned.
EnsureFolderPathAgain ==
    /\ last.op = "ensure_folder_path"
    /\ ~last.raised
    /\ last.follows = "none"
    /\ \E F \in FirstFailure(last.args[2]) : Ensured(last.args[1], last.args[2], F)

NextFolders == EnsureFolderPath \/ EnsureFolderPathAgain \/ Discard

SpecFolders == Init /\ [][NextFolders]_vars

\* ------------------------------------------------------------ runs of main

\* Two local trees: shared secrets and one service; nested directories
Tree1 ==
    (<<"shared-secrets", "common", "db.env">> :> <<KvLine("A", "1")>>)
    @@ (<<"services", "bi", "common.env">> :> <<KvLine("B", "1")>>)
    @@ (<<"services", "bi", "prod.env">> :> <<KvLine("B", "2")>>)
Tree2 ==
    (<<"shared-secrets", "prod", "nested", "api.env">> :> <<CommentLine, KvLine("A", "2")>>)
    @@ (<<"services", "bi", "backend", "common.env">> :> <<KvLine("C", "1")>>)
    @@ (<<"services", "bi", "backend", "staging.env">> :> <<KvLine("C", "1")>>)
Trees == {Tree1, Tree2}

\* The command lines of the model: the full staged sync and --step=1..4
RunArgs == {[mode |-> "full", step |-> 0]} \cup {[mode |-> "step", step |-> k] : k \in 1..4}

\* A new project, and a project synchronized before from other local values
FreshRemote ==
    [envs |-> {"dev"}, folders |-> EmptyBag, secrets |-> EmptyMap, imports |-> EmptyBag]
UsedRemote ==
    [envs |-> {"common", "prod", "staging"},
     folders |-> SetToBag({<<"common", <<"shared-secrets">>>>,
                           <<"common", <<"shared-secrets", "db">>>>,
                           <<"prod", <<"old">>>>}),
     secrets |-> (<<"common", <<"shared-secrets", "db">>, "A">> :> "2")
                 @@ (<<"common", <<"shared-secrets", "db">>, "C">> :> "1")
                 @@ (<<"prod", <<"old">>, "B">> :> "1"),
     imports |-> EmptyBag]

\* A project whose default environment dev has been written to
DevRemote ==
    [envs |-> {"dev", "common"},
     folders |-> SetToBag({<<"dev", <<"old">>>>}),
     secrets |-> (<<"dev", <<>>, "A">> :> "1") @@ (<<"dev", <<"old">>, "B">> :> "2")
                 @@ (<<"common", <<>>, "C">> :> "1"),
     imports |-> EmptyBag]

InitRun ==
    /\ \E r \in {FreshRemote, UsedRemote, DevRemote} :
          /\ renvs = r.envs
          /\ rfolders = r.folders
          /\ rsecrets = r.secrets
          /\ rimports = r.imports
    /\ calls = <<>>
    /\ last = NoOp

Remote == [envs |-> renvs, folders |-> rfolders, secrets |-> rsecrets, imports |-> rimports]

\* The remote as a new process, with no token yet, finds it
RunStore(F) == [Store(F) EXCEPT !.token = FALSE]

\* At most one request of a run fails: any one of those the run would issue
OneFailure(args, tree, dry_run) ==
    {{}} \cup {{n} : n \in 1..Len(main(RunStore({}), args, tree, dry_run).st.log)}

Ran(args, tree, dry_run, F, n) ==
    LET r == main(RunStore(F), args, tree, dry_run)
        again == Follows("main", <<args, tree>>)
    IN  /\ Install(r.st)
        /\ last' = [op |-> "main", args |-> <<args, tree>>, dry_run |-> dry_run,
                    follows |-> again,
                    prev_clean |-> again # "none" /\ \A i \in DOMAIN calls : calls[i].ok,
                    pre |-> Remote, raised |-> r.status # "done", status |-> r.status,
                    shared |-> [ret |-> r.shared.ret, visited |-> r.shared.visited],
                    services |-> [ret |-> r.services.ret, visited |-> r.services.visited],
                    imports |-> r.imports, n |-> n]

Run ==
    /\ last.op = "none"
    /\ \E args \in RunArgs, tree \in Trees, dry_run \in BOOLEAN :
         \E F \in OneFailure(args, tree, dry_run) : Ran(args, tree, dry_run, F, 1)

\* The full sync is run again, with the local tree as it was.
RunAgain ==
    /\ last.op = "main"
    /\ last.args[1].mode = "full"
    /\ ~last.dry_run
    /\ last.n < MaxRuns
    /\ \E F \in OneFailure(last.args[1], last.args[2], FALSE) :
          Ran(last.args[1], last.args[2], FALSE, F, last.n + 1)

NextRun == Run \/ RunAgain

SpecRun == InitRun /\ [][NextRun]_vars

NextReconcile == SetSecretsFromEnv \/ SetSecretsFromEnvAgain \/ Discard

SpecReconcile == Init /\ [][NextReconcile]_vars

\* ------------------------------------------- claims about the reconciler

IsReconcile == last.op = "set_secrets_from_env"
RecFile == last.args[2]
RecTarget(k) == <<last.args[1], Canon(last.args[3]), k>>

\* The desired mapping of a file, read off its lines: the last KEY=VALUE line
\* of a key gives its value, the first one its position.
KvIdx(file, k) == {i \in DOMAIN file : file[i].kind = "kv" /\ file[i].key = k}
DesiredKeys(file) ==
    {file[i].key : i \in {j \in DOMAIN file : file[j].kind = "kv" /\ file[j].key # ""}}
Max(S) == CHOOSE x \in S : \A y \in S : y <= x
Min(S) == CHOOSE x \in S : \A y \in S : x <= y
DesiredVal(file, k) == file[Max(KvIdx(file, k))].value
FirstIdx(file, k) == Min(KvIdx(file, k))

PreHas(k) == RecTarget(k) \in DOMAIN last.pre
PreVal(k) == last.pre[RecTarget(k)]
ToCreate == {k \in DesiredKeys(RecFile) : ~PreHas(k)}
ToUpdate == {k \in DesiredKeys(RecFile) : PreHas(k) /\ PreVal(k) # DesiredVal(RecFile, k)}
ToKeep == {k \in DesiredKeys(RecFile) : PreHas(k) /\ PreVal(k) = DesiredVal(RecFile, k)}

PrintedKeys(tags) ==
    {last.printed[i][2] : i \in {j \in DOMAIN last.printed : last.printed[j][1] \in tags}}
AllCallsOk == \A i \in DOMAIN calls : calls[i].ok
WriteOps == {"create_secret", "update_secret"}
WriteIdx == {i \in DOMAIN calls : calls[i].op \in WriteOps}
FailedCalls(op) == Cardinality({i \in DOMAIN calls : calls[i].op = op /\ ~calls[i].ok})

\* C1: when the listing succeeds and no write fails, every desired key is
\* classified by the remote state read at the start of the call: absent ->
\* created, present with another value -> updated, present and equal -> unchanged.
C1_Classification ==
    (IsReconcile /\ ~last.raised /\ AllCallsOk) =>
        /\ PrintedKeys({"create", "will_create"}) = ToCreate
        /\ PrintedKeys({"update", "will_update"}) = ToUpdate
        /\ last.ret = [created |-> Cardinality(ToCreate), updated |-> Cardinality(ToUpdate),
                       unchanged |-> Cardinality(ToKeep), failed |-> 0]

\* Example 1 of the specification: desired {A:1, B:2} against remote {B:2, C:..}.
C1_Witness ==
    /\ IsReconcile /\ ~last.raised /\ ~last.dry_run /\ AllCallsOk
    /\ DesiredKeys(RecFile) = {"A", "B"}
    /\ DesiredVal(RecFile, "A") = "1" /\ DesiredVal(RecFile, "B") = "2"
    /\ ~PreHas("A") /\ PreHas("B") /\ PreVal("B") = "2" /\ PreHas("C")
    /\ last.ret = [created |-> 1, updated |-> 0, unchanged |-> 1, failed |-> 0]

\* C2: every call that returns statistics counts each distinct desired key in
\* exactly one of created, updated, unchanged, failed.
C2_CountsPartition ==
    (IsReconcile /\ ~last.raised) =>
        /\ last.ret.created + last.ret.updated + last.ret.unchanged + last.ret.failed
             = Cardinality(DesiredKeys(RecFile))
        /\ last.ret.unchanged = Cardinality(ToKeep)
        /\ last.ret.failed = Cardinality(PrintedKeys({"failed"}))
        /\ last.ret.created = Cardinality(PrintedKeys({"create", "will_create"}))
        /\ last.ret.updated = Cardinality(PrintedKeys({"update", "will_update"}))
        /\ PrintedKeys({"failed"}) \cap PrintedKeys({"create", "will_create"}) = {}
        /\ PrintedKeys({"failed"}) \cap PrintedKeys({"update", "will_update"}) = {}

C2_Witness ==
    /\ IsReconcile /\ ~last.raised /\ ~last.dry_run
    /\ last.ret.failed = 1 /\ last.ret.created = 1
    /\ Cardinality(DesiredKeys(RecFile)) = 2

\* C3: a reconcile call never touches a remote-only key of its target: the
\* key keeps its value, and no delete-secret call is issued, whatever fails.
C3_RemoteOnlyUntouched ==
    IsReconcile =>
        /\ \A k \in Keys \ DesiredKeys(RecFile) :
              PreHas(k) => /\ RecTarget(k) \in DOMAIN rsecrets
                           /\ rsecrets[RecTarget(k)] = PreVal(k)
        /\ \A i \in DOMAIN calls : calls[i].op # "delete_secret"

C3_Witness ==
    /\ IsReconcile /\ ~last.dry_run /\ ~last.raised
    /\ PreHas("C") /\ "C" \notin DesiredKeys(RecFile)
    /\ last.ret.failed = 1 /\ last.ret.updated = 1
    /\ rsecrets[RecTarget("C")] = PreVal("C")

\* C4: in apply mode exactly one write is attempted for each desired key that
\* is not unchanged, in file order and whatever earlier writes failed; a failed
\* write is counted failed, and a write that succeeded stays in the remote.
C4_FailureDoesNotBlock ==
    (IsReconcile /\ ~last.dry_run /\ ~last.raised) =>
        /\ \A k \in ToCreate \cup ToUpdate :
              Cardinality({i \in WriteIdx : calls[i].name = k}) = 1
        /\ \A i \in WriteIdx : calls[i].name \in ToCreate \cup ToUpdate
        /\ \A i, j \in WriteIdx :
              i < j => FirstIdx(RecFile, calls[i].name) < FirstIdx(RecFile, calls[j].name)
        /\ last.ret.failed = Cardinality({i \in WriteIdx : ~calls[i].ok})
        /\ \A i \in WriteIdx :
              calls[i].ok => /\ RecTarget(calls[i].name) \in DOMAIN rsecrets
                             /\ rsecrets[RecTarget(calls[i].name)]
                                  = DesiredVal(RecFile, calls[i].name)

\* The first write fails and the second one is still made, and succeeds.
C4_Witness ==
    /\ IsReconcile /\ ~last.dry_run /\ ~last.raised
    /\ Len(calls) = 3
    /\ ~calls[2].ok /\ calls[3].ok /\ calls[3].op = "create_secret"
    /\ last.ret.failed = 1 /\ last.ret.created = 1

IsApplyAfterPreview == IsReconcile /\ last.follows = "preview" /\ ~last.raised

\* C6 as stated: a preview reports the statistics the apply run reports.
C6_PreviewEqualsApply == IsApplyAfterPreview => last.ret = last.prev_ret

\* C6 as amended: the preview and the apply run agree on unchanged; the
\* preview reports no failure, and each failed write of the apply run is a key
\* the preview counted created or updated. They are identical when no write fails.
C6_PreviewEqualsApplyUpToFailures ==
    IsApplyAfterPreview =>
        /\ last.prev_ret.failed = 0
        /\ last.ret.unchanged = last.prev_ret.unchanged
        /\ last.ret.created + FailedCalls("create_secret") = last.prev_ret.created
        /\ last.ret.updated + FailedCalls("update_secret") = last.prev_ret.updated
        /\ last.ret.failed = FailedCalls("create_secret") + FailedCalls("update_secret")
        /\ AllCallsOk => last.ret = last.prev_ret

C6_Witness ==
    /\ IsApplyAfterPreview /\ AllCallsOk
    /\ last.ret = last.prev_ret
    /\ last.ret.created = 1 /\ last.ret.updated = 1

\* C8: after an apply call returns, every desired key not classified failed
\* holds its desired value in the remote at the target.
C8_DesiredValuesHeld ==
    (IsReconcile /\ ~last.dry_run /\ ~last.raised) =>
        \A k \in DesiredKeys(RecFile) \ PrintedKeys({"failed"}) :
            /\ RecTarget(k) \in DOMAIN rsecrets
            /\ rsecrets[RecTarget(k)] = DesiredVal(RecFile, k)

C8_Witness ==
    /\ IsReconcile /\ ~last.dry_run /\ ~last.raised
    /\ last.ret.created = 1 /\ last.ret.updated = 1
    /\ \A k \in DesiredKeys(RecFile) : rsecrets[RecTarget(k)] = DesiredVal(RecFile, k)

\* ----------------------------------------- claims about ensure_folder_path

IsEnsure == last.op = "ensure_folder_path"
EnsEnv == last.args[1]
EnsSegs == Canon(last.args[2])
CreateIdx == {i \in DOMAIN calls : calls[i].op = "create_folder"}
CreatedAt(i) == <<calls[i].env, Append(Canon(calls[i].path), calls[i].name)>>
\* The folders of the remote when the i-th call of the operation is issued
FoldersAt(i) ==
    BagToSet(last.pre) \cup {CreatedAt(j) : j \in {k \in CreateIdx : k < i /\ calls[k].ok}}

\* C9: after ensure_folder_path returns without error every prefix of the
\* path's segment list is a folder of the environment; folders are created
\* parent before child, and never under a parent that does not exist.
C9_PrefixesExist ==
    IsEnsure =>
        /\ ~last.raised =>
              \A n \in 1..Len(EnsSegs) : BagIn(<<EnsEnv, SubSeq(EnsSegs, 1, n)>>, rfolders)
        /\ \A i \in CreateIdx :
              /\ CreatedAt(i)[1] = EnsEnv
              /\ \E n \in 1..Len(EnsSegs) : CreatedAt(i)[2] = SubSeq(EnsSegs, 1, n)
              /\ \/ Canon(calls[i].path) = <<>>
                 \/ <<EnsEnv, Canon(calls[i].path)>> \in FoldersAt(i)
        /\ \A i, j \in CreateIdx :
              i < j => Len(CreatedAt(i)[2]) < Len(CreatedAt(j)[2])

\* Both segments of a two-segment path are created, the parent first.
C9_Witness ==
    /\ IsEnsure /\ ~last.raised
    /\ Len(EnsSegs) = 2
    /\ Cardinality(CreateIdx) = 2
    /\ BagIn(<<EnsEnv, EnsSegs>>, rfolders)

\* C10: sequential ensure_folder_path calls never leave a parent with two
\* children of the same name, and a call repeated with the same arguments
\* issues no create-folder call.
C10_EnsureIdempotent ==
    /\ \A f \in BagToSet(rfolders) : CopiesIn(f, rfolders) = 1
    /\ (IsEnsure /\ last.follows = "apply") => CreateIdx = {}

C10_Witness ==
    /\ IsEnsure /\ last.follows = "apply" /\ ~last.raised
    /\ Len(EnsSegs) = 2
    /\ Len(calls) = 2
    /\ BagIn(<<EnsEnv, EnsSegs>>, rfolders)

\* ------------------------------------------------ claims about runs of main

IsRun == last.op = "main"
IsFullSync == IsRun /\ last.args[1].mode = "full"
MutatingOps ==
    {"create_environment", "delete_environment", "create_folder", "create_secret",
     "update_secret", "delete_secret", "create_secret_import"}
MutatingIdx == {i \in DOMAIN calls : calls[i].op \in MutatingOps}

\* C5: a run in preview mode issues no mutating remote call, so the remote
\* after the run is the remote before it.
C5_PreviewPurity ==
    (IsRun /\ last.dry_run) => (MutatingIdx = {} /\ Remote = last.pre)

\* What the preview does keep: no secret, import edge or environment is written.
C5_PreviewWritesNoSecret ==
    (IsRun /\ last.dry_run) =>
        /\ \A i \in MutatingIdx : calls[i].op = "create_folder"
        /\ rsecrets = last.pre.secrets
        /\ rimports = last.pre.imports
        /\ renvs = last.pre.envs

\* A preview of step 2 that returned and left a folder behind.
C5_Witness ==
    /\ IsRun /\ last.dry_run /\ last.status = "done"
    /\ last.args[1] = [mode |-> "step", step |-> 2]
    /\ \E i \in MutatingIdx : calls[i].op = "create_folder" /\ calls[i].ok
    /\ rfolders # last.pre.folders

\* The second of two full syncs in a row, the local tree unchanged
IsSecondSync == IsFullSync /\ ~last.dry_run /\ last.follows = "apply"
NoChangeReported ==
    /\ last.shared.ret.created = 0 /\ last.shared.ret.updated = 0
    /\ last.services.ret.created = 0 /\ last.services.ret.updated = 0
    /\ last.imports.created = 0
    /\ \A i \in DOMAIN calls :
          calls[i].op \notin {"create_secret", "update_secret", "create_secret_import"}

Under(d, p) == Len(d) <= Len(p) /\ SubSeq(p, 1, Len(d)) = d

\* What is left of a bag when one copy of x is taken out
Without(B, x) == B (-) SetToBag({x})

\* The remote after the folder (environment, at) is deleted: a remote that
\* cascades drops what lies at or beneath it, another one only the folder.
Removed(st, environment, at) ==
    IF st.cascade THEN
        [st EXCEPT
            !.folders = [f \in {g \in BagToSet(@) :
                                  ~(g[1] = environment /\ Under(at, g[2]))} |-> @[f]],
            !.imports = [i \in {j \in BagToSet(@) :
                                  ~(j[1] = environment /\ Under(at, j[2]))} |-> @[i]],
            !.secrets = [t \in {u \in DOMAIN @ :
                                  ~(u[1] = environment /\ Under(at, u[2]))} |-> @[t]]]
    ELSE [st EXCEPT !.folders = Without(@, <<environment, at>>)]

\* The outcome of a delete-folder request r
Unfoldered(r, st, environment, at) ==
    [st |-> IF r.ok THEN [Removed(st, environment, at) EXCEPT !.log = r.st.log,
                                                              !.token = r.st.token]
            ELSE r.st,
     ok |-> r.ok]

\* folder_id is the place of the folder; the entry keeps it in ipath
delete_folder(st, environment, folder_id, parent_path) ==
    Unfoldered(Request(st, [Entry("delete_folder", environment, parent_path,
                                  folder_id[Len(folder_id)]) EXCEPT !.ipath = folder_id],
                       environment \in st.envs /\ BagIn(<<environment, folder_id>>, st.folders)),
               st, environment, folder_id)

\* import_id is the edge itself: <<importEnv, importPath>>
delete_secret_import(st, environment, path, import_id) ==
    Stored(Request(st, [Entry("delete_secret_import", environment, path, import_id[1])
                           EXCEPT !.ipath = import_id[2]],
                   /\ environment \in st.envs
                   /\ BagIn(<<environment, Canon(path), import_id[1], import_id[2]>>,
                            st.imports)),
           "imports",
           Without(st.imports, <<environment, Canon(path), import_id[1], import_id[2]>>))

\* The order in which the remote lists a set: any fixed one
Pick(S) == CHOOSE x \in S : TRUE

RECURSIVE InOrder(_)
InOrder(S) == IF S = {} THEN <<>> ELSE <<Pick(S)>> \o InOrder(S \ {Pick(S)})

\* lines 375-380: a failed delete of one import is passed over; acc = [st, count]
import_deleted(acc, d) == [st |-> d.st, count |-> IF d.ok THEN acc.count + 1 ELSE acc.count]

RECURSIVE unimport_loop(_, _, _, _, _)
unimport_loop(acc, environment, path, imports, i) ==
    IF i > Len(imports) THEN acc
    ELSE unimport_loop(
             import_deleted(acc, delete_secret_import(acc.st, environment, path, imports[i])),
             environment, path, imports, i + 1)

\* lines 373-381: l is the outcome of list_secret_imports, outside any try
unimport_listed(l, environment, path) ==
    IF ~l.ok THEN [st |-> l.st, count |-> 0, raised |-> TRUE]
    ELSE [raised |-> FALSE]
         @@ unimport_loop([st |-> l.st, count |-> 0], environment, path, InOrder(l.val), 1)

delete_all_secret_imports(st, environment, path) ==
    unimport_listed(list_secret_imports(st, environment, path), environment, path)

\* lines 150-153: whatever delete_all_secret_imports raises is passed over
drop_imports(st, environment, folder_path) ==
    delete_all_secret_imports(st, environment, folder_path).st

\* lines 158-162: a failed delete of one secret is passed over
RECURSIVE drop_secrets_loop(_, _, _, _, _)
drop_secrets_loop(st, environment, folder_path, keys, i) ==
    IF i > Len(keys) THEN st
    ELSE drop_secrets_loop(delete_secret(st, environment, keys[i], folder_path).st,
                           environment, folder_path, keys, i + 1)

\* Mutant: the secrets of the folder are left where they are.
drop_secrets_skipped(st, environment, folder_path) == st

\* lines 156-164: l is the outcome of list_secrets; its failure is passed over
drop_secrets_listed(l, environment, folder_path) ==
    IF ~l.ok THEN l.st
    ELSE drop_secrets_loop(l.st, environment, folder_path, InOrder(DOMAIN l.val), 1)

drop_secrets(st, environment, folder_path) ==
    drop_secrets_listed(list_secrets(st, environment, folder_path), environment, folder_path)

RECURSIVE delete_folder_recursive(_, _, _)

\* lines 169-173: the loop ends at the first sub-call that raises, and the
\* except clause passes over what it raised
RECURSIVE drop_subfolders_loop(_, _, _, _, _)
drop_subfolder(r, environment, folder_path, names, i) ==
    IF r.raised THEN r.st
    ELSE drop_subfolders_loop(r.st, environment, folder_path, names, i + 1)

drop_subfolders_loop(st, environment, folder_path, names, i) ==
    IF i > Len(names) THEN st
    ELSE drop_subfolder(
             delete_folder_recursive(st, environment,
                                     folder_path \o <<"/">> \o Tokens(names[i])),
             environment, folder_path, names, i)

\* Mutant: the children listed are gone through twice.
drop_subfolders_listed_twice(l, environment, folder_path) ==
    IF ~l.ok THEN l.st
    ELSE drop_subfolders_loop(l.st, environment, folder_path,
                              InOrder(l.val) \o InOrder(l.val), 1)

\* lines 167-173: l is the outcome of list_folders; its failure is passed over
drop_subfolders_listed(l, environment, folder_path) ==
    IF ~l.ok THEN l.st
    ELSE drop_subfolders_loop(l.st, environment, folder_path, InOrder(l.val), 1)

drop_subfolders(st, environment, folder_path) ==
    drop_subfolders_listed(list_folders(st, environment, folder_path),
                           environment, folder_path)

\* lines 177-182
parent_of(folder_path) ==
    IF HasSlash(strip(folder_path))
    THEN <<"/">> \o join(SubSeq(split(strip(folder_path)), 1,
                                Len(split(strip(folder_path))) - 1))
    ELSE <<"/">>

folder_name_of(folder_path) ==
    IF HasSlash(strip(folder_path))
    THEN split(strip(folder_path))[Len(split(strip(folder_path)))]
    ELSE Name(strip(folder_path))

\* lines 188-189: d is the outcome of delete_folder, outside any try
self_deleted(d) == [st |-> d.st, ret |-> d.ok, raised |-> ~d.ok]

\* Mutant: a folder that is not listed under its parent is an error.
drop_self_listed_strict(folders, environment, folder_path) ==
    IF ~folders.ok \/ folder_name_of(folder_path) \notin folders.val
    THEN [st |-> folders.st, ret |-> FALSE, raised |-> TRUE]
    ELSE self_deleted(delete_folder(
                          folders.st, environment,
                          Append(Canon(parent_of(folder_path)), folder_name_of(folder_path)),
                          parent_of(folder_path)))

\* Mutant: the name of the listed folder is not compared; the first
\* folder listed under the parent is deleted.
drop_self_listed_any(folders, environment, folder_path) ==
    IF ~folders.ok THEN [st |-> folders.st, ret |-> FALSE, raised |-> TRUE]
    ELSE IF folders.val # {}
         THEN self_deleted(delete_folder(
                               folders.st, environment,
                               Append(Canon(parent_of(folder_path)), Pick(folders.val)),
                               parent_of(folder_path)))
    ELSE [st |-> folders.st, ret |-> FALSE, raised |-> FALSE]

\* lines 185-190: folders is the outcome of listing the parent, outside any try
drop_self_listed(folders, environment, folder_path) ==
    IF ~folders.ok THEN [st |-> folders.st, ret |-> FALSE, raised |-> TRUE]
    ELSE IF folder_name_of(folder_path) \in folders.val
         THEN self_deleted(delete_folder(
                               folders.st, environment,
                               Append(Canon(parent_of(folder_path)),
                                      folder_name_of(folder_path)),
                               parent_of(folder_path)))
    ELSE [st |-> folders.st, ret |-> FALSE, raised |-> FALSE]

drop_self(st, environment, folder_path) ==
    drop_self_listed(list_folders(st, environment, parent_of(folder_path)),
                     environment, folder_path)

\* lines 149-190, folder_path being stripped of its trailing "/"
delete_stripped(st, environment, folder_path) ==
    IF folder_path = <<>> \/ folder_path = <<"/">> THEN
        [st |-> st, ret |-> FALSE, raised |-> FALSE]
    ELSE drop_self(
             drop_subfolders(
                 drop_secrets(drop_imports(st, environment, folder_path),
                              environment, folder_path),
                 environment, folder_path),
             environment, folder_path)

\* Mutant: the trailing slashes are not stripped before the test for the root.
delete_folder_recursive_unstripped(st, environment, folder_path) ==
    delete_stripped(st, environment, folder_path)

delete_folder_recursive(st, environment, folder_path) ==
    delete_stripped(st, environment, rstrip(folder_path))

\* lines 192-194
delete_folder_by_path(st, environment, folder_path) ==
    delete_folder_recursive(st, environment, folder_path)

\* ------------------------------------------------------ runs of deletion

MaxFailures == 2   \* failing requests of one call

\* A remote with content to delete: a folder with secrets, an import edge and
\* two child folders in common, and bystanders of the same path in prod
DelRemote ==
    [envs |-> {"common", "prod", "staging"},
     folders |-> SetToBag({<<"common", <<"a">>>>, <<"common", <<"a", "b">>>>,
                           <<"common", <<"a", "c">>>>, <<"common", <<"d">>>>,
                           <<"prod", <<"a">>>>}),
     secrets |-> (<<"common", <<"a">>, "A">> :> "1") @@ (<<"common", <<"a", "b">>, "B">> :> "1")
                 @@ (<<"common", <<"d">>, "C">> :> "2") @@ (<<"prod", <<"a">>, "A">> :> "2"),
     imports |-> SetToBag({<<"common", <<"a">>, "prod", <<"/", "a">>>>,
                           <<"prod", <<"a">>, "common", <<"/", "a">>>>})]

InitDelete ==
    /\ renvs = DelRemote.envs
    /\ rfolders = DelRemote.folders
    /\ rsecrets = DelRemote.secrets
    /\ rimports = DelRemote.imports
    /\ calls = <<>>
    /\ last = NoOp

\* The remote as the client finds it; cascade is how the remote deletes a folder
DelStore(F, cascade) == [cascade |-> cascade] @@ Store(F)

DelEnv == "common"
DelPaths ==
    {<<"/", "a">>, <<"/", "a", "/">>, <<"a">>, <<"/", "a", "/", "b">>, <<"/", "d">>,
     <<"/", "x">>, <<"/", "x", "/", "y">>, <<"/">>, <<>>}

\* Up to MaxFailures requests of a call fail, among those it would issue
SomeFailures(environment, folder_path) ==
    {F \in SUBSET (1..Len(delete_folder_recursive(DelStore({}, FALSE), environment,
                                                  folder_path).st.log)) :
        Cardinality(F) <= MaxFailures}

Deleted(environment, folder_path, F, cascade, r) ==
    /\ Install(r.st)
    /\ last' = [op |-> "delete_folder_recursive", args |-> <<environment, folder_path>>,
                dry_run |-> FALSE,
                follows |-> Follows("delete_folder_recursive", <<environment, folder_path>>),
                prev_ret |-> IF last.op = "delete_folder_recursive" THEN last.ret ELSE FALSE,
                prev_clean |-> \A i \in DOMAIN calls : calls[i].ok,
                pre |-> Remote, cascade |-> cascade, ret |-> r.ret, raised |-> r.raised]

DeleteFolderRecursive ==
    /\ last.op = "none"
    /\ \E folder_path \in DelPaths, cascade \in BOOLEAN :
         \E F \in SomeFailures(DelEnv, folder_path) :
            Deleted(DelEnv, folder_path, F, cascade,
                    delete_folder_recursive(DelStore(F, cascade), DelEnv, folder_path))

\* The same call once again, directly after one that returned.
DeleteFolderRecursiveAgain ==
    /\ last.op = "delete_folder_recursive"
    /\ ~last.raised
    /\ last.follows = "none"
    /\ \E F \in SomeFailures(last.args[1], last.args[2]) :
          Deleted(last.args[1], last.args[2], F, last.cascade,
                  delete_folder_recursive(DelStore(F, last.cascade), last.args[1],
                                          last.args[2]))

NextDelete == DeleteFolderRecursive \/ DeleteFolderRecursiveAgain

SpecDelete == InitDelete /\ [][NextDelete]_vars

\* ------------------------------------------------ claims about deletion

IsDelete == last.op = "delete_folder_recursive"
DelTarget == Canon(last.args[2])
DeleteFolderIdx == {i \in DOMAIN calls : calls[i].op = "delete_folder"}
\* The folders that successful delete-folder calls took away before call i
GoneBefore(i) == {calls[j].ipath : j \in {k \in DeleteFolderIdx : k < i /\ calls[k].ok}}
FoldersWhen(i) ==
    {f \in BagToSet(last.pre.folders) :
        ~(f[1] = last.args[1] /\
          \E d \in GoneBefore(i) : IF last.cascade THEN Under(d, f[2]) ELSE d = f[2])}
\* The direct child folders of the folder call i deletes, when it is issued
ChildrenWhen(i) ==
    {f \in FoldersWhen(i) :
        /\ f[1] = calls[i].env
        /\ Len(f[2]) = Len(calls[i].ipath) + 1
        /\ Under(calls[i].ipath, f[2])}
FailedIdx == {i \in DOMAIN calls : ~calls[i].ok}

\* C11: a delete-folder call is issued only after all direct child folders
\* of its folder are gone from the remote.
C11_ChildrenGoneFirst ==
    IsDelete => \A i \in DeleteFolderIdx : ChildrenWhen(i) = {}

\* What the code does keep: the order holds when the only requests that fail
\* are requests about secrets and import edges.
C11_ChildrenGoneFirstUnlessFolderCallFails ==
    (IsDelete /\ \A i \in FailedIdx : calls[i].op \notin {"list_folders", "delete_folder"}) =>
        \A i \in DeleteFolderIdx : ChildrenWhen(i) = {}

\* The listing of the children of /a failed, and /a was deleted all the same.
C11_Witness ==
    /\ IsDelete /\ last.ret /\ ~last.raised
    /\ DelTarget = <<"a">>
    /\ \E i \in DeleteFolderIdx :
          calls[i].ipath = <<"a">> /\ calls[i].ok /\ ChildrenWhen(i) # {}

\* Nothing is left at or beneath the target of the call
NothingBeneath ==
    /\ \A f \in BagToSet(rfolders) : ~(f[1] = last.args[1] /\ Under(DelTarget, f[2]))
    /\ \A t \in DOMAIN rsecrets : ~(t[1] = last.args[1] /\ Under(DelTarget, t[2]))
    /\ \A i \in BagToSet(rimports) : ~(i[1] = last.args[1] /\ Under(DelTarget, i[2]))

AbsentBefore ==
    /\ \A f \in BagToSet(last.pre.folders) : ~(f[1] = last.args[1] /\ Under(DelTarget, f[2]))
    /\ \A t \in DOMAIN last.pre.secrets : ~(t[1] = last.args[1] /\ Under(DelTarget, t[2]))
    /\ \A i \in BagToSet(last.pre.imports) : ~(i[1] = last.args[1] /\ Under(DelTarget, i[2]))
NoFolderBefore == ~BagIn(<<last.args[1], DelTarget>>, last.pre.folders)
LastCallFailed == calls # <<>> /\ ~calls[Len(calls)].ok
NotDeletedNoChange == ~last.ret /\ Remote = last.pre /\ (last.raised <=> LastCallFailed)
IsSecondDelete == IsDelete /\ last.follows = "apply" /\ last.prev_ret

C13_WitnessNoParent ==
    /\ IsDelete /\ DelTarget = <<"x", "y">> /\ ~last.ret /\ ~last.raised /\ Len(calls) = 4

\* C14: a request of the call that fails for another reason than not-found
\* is surfaced to the caller. (Every request the call issues follows a
\* listing that named its object, so none is refused as not-found: a failed
\* request here is a transport failure.)
C14_OtherFailuresSurfaced == (IsDelete /\ FailedIdx # {}) => last.raised

\* What the code does keep: the failures of the last step are surfaced.
C14_LastStepSurfaced == IsDelete => (last.raised <=> LastCallFailed)

\* The listing of the secrets failed, the call returned deleted.
C14_Witness ==
    /\ IsDelete /\ ~last.raised /\ last.ret
    /\ \E i \in FailedIdx : calls[i].op = "list_secrets"
    /\ \E t \in DOMAIN rsecrets : t[1] = last.args[1] /\ Under(DelTarget, t[2])

\* --------------------------------------------- runs of ensure_secret_import

ImpEnv == "prod"
ImpPaths == {<<"/", "s">>, <<"/", "s", "/">>}
ImpSources == {"common", "staging"}

Linked(environment, path, import_env, import_path, r) ==
    /\ Install(r.st)
    /\ last' = [op |-> "ensure_secret_import",
                args |-> <<environment, path, import_env, import_path>>,
                dry_run |-> FALSE,
                follows |-> Follows("ensure_secret_import",
                                    <<environment, path, import_env, import_path>>),
                pre |-> rimports, ret |-> r.ret, raised |-> r.raised]

\* A call issues a listing and at most one creation: either may fail
EnsureSecretImport ==
    /\ last.op = "none"
    /\ \E path \in ImpPaths, import_env \in ImpSources, import_path \in ImpPaths :
         \E F \in SUBSET (1..2) :
            Linked(ImpEnv, path, import_env, import_path,
                   ensure_secret_import(Store(F), ImpEnv, path, import_env, import_path))

\* The same call once again, directly after one that returned.
EnsureSecretImportAgain ==
    /\ last.op = "ensure_secret_import"
    /\ ~last.raised
    /\ last.follows = "none"
    /\ \E F \in SUBSET (1..2) :
          Linked(last.args[1], last.args[2], last.args[3], last.args[4],
                 ensure_secret_import(Store(F), last.args[1], last.args[2], last.args[3],
                                      last.args[4]))

NextImports == EnsureSecretImport \/ EnsureSecretImportAgain \/ Discard

SpecImports == Init /\ [][NextImports]_vars

\* ------------------------------------- claims about ensure_secret_import

IsLink == last.op = "ensure_secret_import"
LinkEdge == <<last.args[1], Canon(last.args[2]), last.args[3], last.args[4]>>
CreateImportIdx == {i \in DOMAIN calls : calls[i].op = "create_secret_import"}

\* C15: sequential ensure_secret_import calls leave at most one copy of an
\* edge; a call that returns reports created exactly when the edge was
\* absent, and then the edge is there once; a call repeated with the same
\* arguments reports exists and issues no create call.
C15_LinkIdempotent ==
    /\ \A e \in BagToSet(rimports) : CopiesIn(e, rimports) = 1
    /\ (IsLink /\ ~last.raised) =>
          /\ last.ret <=> ~BagIn(LinkEdge, last.pre)
          /\ CopiesIn(LinkEdge, rimports) = 1
    /\ (IsLink /\ last.follows = "apply") => (CreateImportIdx = {} /\ ~last.ret)

\* The second of two identical calls, the first having created the edge.
C15_Witness ==
    /\ IsLink /\ last.follows = "apply" /\ ~last.raised /\ ~last.ret
    /\ Len(calls) = 1
    /\ CopiesIn(LinkEdge, rimports) = 1
    /\ Cardinality(BagToSet(rimports)) >= 2

\* =====================================================================
\* The comparators: compare_configs.py and compare_with_archive_v2.py
\* =====================================================================

\* A key or a service name is the sequence of its words and separators:
\* "USER_AUTH_URL" is <<"USER", "_", "AUTH", "_", "URL">> and "user-auth" is
\* <<"user", "-", "auth">>.  A dict is the sequence of its <<key, value>>
\* items in insertion order, no key twice.

upper_word(w) ==
    CASE w = "user" -> "USER" [] w = "auth" -> "AUTH" [] w = "comfy" -> "COMFY"
      [] w = "mcp" -> "MCP" [] w = "chart" -> "CHART" [] w = "service" -> "SERVICE"
      [] w = "foo" -> "FOO" [] OTHER -> w

upper(s) == [i \in DOMAIN s |-> upper_word(s[i])]
replace(s, old, new) == [i \in DOMAIN s |-> IF s[i] = old THEN new ELSE s[i]]

startswith(key, prefix) ==
    Len(prefix) <= Len(key) /\ SubSeq(key, 1, Len(prefix)) = prefix

\* The prefixes that name a service, in the order of the list.
GenericPrefixes ==
    << <<"COMFY", "_", "MCP", "_">>, <<"FETCH", "_", "MCP", "_">>,
       <<"PERPLEXITY", "_", "MCP", "_">>, <<"SHOPIFY", "_", "MCP", "_">>,
       <<"CHART", "_", "MCP", "_">>, <<"COMMERCE", "_", "MCP", "_">>,
       <<"GOOGLE", "_", "ADS", "_", "MCP", "_">> >>

service_prefix(service_name) == replace(upper(service_name), "-", "_") \o <<"_">>

\* A variant that tries the generic prefixes before the one of the service.
prefixes_generic_first(service_name) ==
    GenericPrefixes \o <<service_prefix(service_name)>>

prefixes(service_name) == <<service_prefix(service_name)>> \o GenericPrefixes

RECURSIVE normalize_scan(_, _, _)
normalize_scan(key, candidates, i) ==
    IF i > Len(candidates) THEN key
    ELSE IF startswith(key, candidates[i])
         THEN SubSeq(key, Len(candidates[i]) + 1, Len(key))
         ELSE normalize_scan(key, candidates, i + 1)

normalize_key(key, service_name) == normalize_scan(key, prefixes(service_name), 1)

\* ------------------------------------------------------------- dicts

contains(d, k) == \E i \in DOMAIN d : d[i][1] = k
getitem(d, k) == d[CHOOSE i \in DOMAIN d : d[i][1] = k][2]
\* d[k] = v keeps the place of a key that is already there
setitem(d, k, v) ==
    IF contains(d, k)
    THEN [i \in DOMAIN d |-> IF d[i][1] = k THEN <<k, v>> ELSE d[i]]
    ELSE Append(d, <<k, v>>)
delitem(d, k) == SelectSeq(d, LAMBDA e : e[1] # k)
keys(d) == {d[i][1] : i \in DOMAIN d}
None == "None"
get(d, k) == IF contains(d, k) THEN getitem(d, k) ELSE None

\* ------------------------------------------ compare_configs.py

USER_AUTH_URL == <<"USER", "_", "AUTH", "_", "URL">>
URL == <<"URL">>
COMFY_MCP_NODE_ENV == <<"COMFY", "_", "MCP", "_", "NODE", "_", "ENV">>
NODE_ENV == <<"NODE", "_", "ENV">>

\* The allow-set, as far as the keys of the model go: USER_AUTH_URL and
\* NODE_ENV are members, URL and COMFY_MCP_NODE_ENV are not.
EXPECTED_CHANGES ==
    {<<"PUBLIC", "_", "URL">>, USER_AUTH_URL, <<"CORS", "_", "ORIGINS">>,
     <<"COMFY", "_", "MCP", "_", "PUBLIC", "_", "URL">>, NODE_ENV,
     <<"LOG", "_", "LEVEL">>, <<"BACKEND", "_", "URL">>}

EmptyResult ==
    [matched |-> <<>>, changed |-> <<>>, expected_change |-> <<>>,
     only_old |-> <<>>, only_new |-> <<>>]

RECURSIVE normalize_old(_, _, _, _)
normalize_old(old_config, service_name, i, old_normalized) ==
    IF i > Len(old_config) THEN old_normalized
    ELSE normalize_old(old_config, service_name, i + 1,
                       setitem(old_normalized,
                               normalize_key(old_config[i][1], service_name),
                               old_config[i]))

\* A variant that looks up the key of the new configuration only.
is_expected_new_only(new_key, old_key) == new_key \in EXPECTED_CHANGES

is_expected(new_key, old_key) ==
    new_key \in EXPECTED_CHANGES \/ old_key \in EXPECTED_CHANGES

\* old is the <<old_key, old_val>> found under new_key
compared(result, new_key, new_val, old) ==
    IF old[2] = new_val
    THEN [result EXCEPT !.matched = Append(@, <<new_key, new_val>>)]
    ELSE IF is_expected(new_key, old[1])
         THEN [result EXCEPT !.expected_change = Append(@, <<new_key, old[2], new_val>>)]
         ELSE [result EXCEPT !.changed = Append(@, <<new_key, old[2], new_val>>)]

remaining_old(result, old_normalized) ==
    [result EXCEPT !.only_old =
        @ \o [j \in DOMAIN old_normalized |-> old_normalized[j][2]]]

RECURSIVE compare_loop(_, _, _, _)
compare_loop(new_config, i, old_normalized, result) ==
    IF i > Len(new_config) THEN remaining_old(result, old_normalized)
    ELSE IF contains(old_normalized, new_config[i][1])
         THEN compare_loop(new_config, i + 1,
                           delitem(old_normalized, new_config[i][1]),
                           compared(result, new_config[i][1], new_config[i][2],
                                    getitem(old_normalized, new_config[i][1])))
         ELSE compare_loop(new_config, i + 1, old_normalized,
                           [result EXCEPT !.only_new = Append(@, new_config[i])])

compare_configs(old_config, new_config, service_name, env) ==
    compare_loop(new_config, 1, normalize_old(old_config, service_name, 1, <<>>),
                 EmptyResult)

\* ------------------------------------------ compare_with_archive_v2.py

EXPECTED_DIFF_KEYS ==
    {<<"PUBLIC", "_", "URL">>, USER_AUTH_URL, <<"CORS", "_", "ORIGINS">>,
     <<"REDIS", "_", "URL">>, <<"BACKEND", "_", "URL">>}

EmptyResultV2 ==
    [matched |-> <<>>, expected_diff |-> <<>>, unexpected_diff |-> <<>>,
     only_expanded |-> <<>>, only_archive |-> <<>>]

compared_v2(result, key, exp_val, arc_val) ==
    IF exp_val = None
    THEN [result EXCEPT !.only_archive = Append(@, <<key, arc_val>>)]
    ELSE IF arc_val = None
    THEN [result EXCEPT !.only_expanded = Append(@, <<key, exp_val>>)]
    ELSE IF exp_val = arc_val
    THEN [result EXCEPT !.matched = Append(@, key)]
    ELSE IF key \in EXPECTED_DIFF_KEYS
    THEN [result EXCEPT !.expected_diff = Append(@, <<key, arc_val, exp_val>>)]
    ELSE [result EXCEPT !.unexpected_diff = Append(@, <<key, arc_val, exp_val>>)]

\* all_keys is a set: the loop visits it in an order the language leaves
\* open, here the sequence all_keys.
RECURSIVE compare_loop_v2(_, _, _, _, _)
compare_loop_v2(expanded, archive, all_keys, i, result) ==
    IF i > Len(all_keys) THEN result
    ELSE compare_loop_v2(expanded, archive, all_keys, i + 1,
                         compared_v2(result, all_keys[i], get(expanded, all_keys[i]),
                                     get(archive, all_keys[i])))

compare_configs_v2(expanded, archive, all_keys) ==
    compare_loop_v2(expanded, archive, all_keys, 1, EmptyResultV2)

\* --------------------------------------------- runs of the comparators

MaxOld == 2
MaxNew == 2

CmpKeyList == <<USER_AUTH_URL, URL, COMFY_MCP_NODE_ENV, NODE_ENV>>
CmpKeys == {CmpKeyList[i] : i \in DOMAIN CmpKeyList}
CmpVals == {"old", "new"}
CmpServices == {<<"user", "-", "auth">>, <<"comfy", "-", "mcp">>}
Rank(k) == CHOOSE i \in DOMAIN CmpKeyList : CmpKeyList[i] = k

\* The dicts of at most n items
Dicts(n) ==
    UNION {{d \in [1..m -> CmpKeys \X CmpVals] :
              \A i, j \in 1..m : i # j => d[i][1] # d[j][1]} : m \in 0..n}

\* The old configuration in every order of its lines; the configurations
\* whose order is never looked at in one order
OldConfigs == Dicts(MaxOld)
Ranked(n) ==
    {d \in Dicts(n) : \A i, j \in DOMAIN d : i < j => Rank(d[i][1]) < Rank(d[j][1])}
NewConfigs == Ranked(MaxNew)
Archives == Ranked(MaxOld)

Orders(S) ==
    {o \in [1..Cardinality(S) -> S] : \A i, j \in DOMAIN o : i # j => o[i] # o[j]}

NormKeys ==
    CmpKeys \cup
    {<<"CHART", "_", "MCP", "_", "PORT">>, <<"MCP", "_", "PORT">>, <<"PORT">>,
     <<"SERVICE", "_", "FOO", "_", "BAR">>,
     <<"COMFY", "_", "MCP", "_", "FETCH", "_", "MCP", "_", "PORT">>,
     <<"COMFY", "_", "MCP", "_">>, <<"COMFY", "_", "MCP">>,
     <<"X", "_", "COMFY", "_", "MCP", "_", "PORT">>}
NormServices ==
    CmpServices \cup {<<"chart">>, <<"chart", "-", "mcp">>, <<"service", "-", "foo">>}

NormalizeKey ==
    /\ last.op = "none"
    /\ \E key \in NormKeys, service_name \in NormServices :
          last' = [op |-> "normalize_key", args |-> <<key, service_name>>,
                   ret |-> normalize_key(key, service_name)]
    /\ UNCHANGED <<renvs, rfolders, rsecrets, rimports, calls>>

CompareConfigs ==
    /\ last.op = "none"
    /\ \E old_config \in OldConfigs, new_config \in NewConfigs,
          service_name \in CmpServices :
          last' = [op |-> "compare_configs",
                   args |-> <<old_config, new_config, service_name, "prod">>,
                   ret |-> compare_configs(old_config, new_config, service_name, "prod")]
    /\ UNCHANGED <<renvs, rfolders, rsecrets, rimports, calls>>

CompareConfigsV2 ==
    /\ last.op = "none"
    /\ \E expanded \in NewConfigs, archive \in Archives :
         \E all_keys \in Orders(keys(expanded) \cup keys(archive)) :
          last' = [op |-> "compare_configs_v2",
                   args |-> <<expanded, archive, all_keys>>,
                   ret |-> compare_configs_v2(expanded, archive, all_keys)]
    /\ UNCHANGED <<renvs, rfolders, rsecrets, rimports, calls>>

NextCompare == NormalizeKey \/ CompareConfigs \/ CompareConfigsV2

SpecCompare == Init /\ [][NextCompare]_vars

\* --------------------------------------------- claims about the comparators

IsNormalize == last.op = "normalize_key"
IsCompare == last.op = "compare_configs"
IsCompareV2 == last.op = "compare_configs_v2"

Firsts(b) == [i \in DOMAIN b |-> b[i][1]]
Times(k, b) == Cardinality({i \in DOMAIN b : b[i] = k})
Entries(b) == {b[i] : i \in DOMAIN b}

\* The comparison with normalization: the buckets whose entries stand for
\* a key of both configurations, and how often a key is accounted for.
Norm(k) == normalize_key(k, last.args[3])
InBoth == Firsts(last.ret.matched) \o Firsts(last.ret.changed)
            \o Firsts(last.ret.expected_change)
InNew(k) == Times(k, InBoth \o Firsts(last.ret.only_new))
InOld(k) == Times(Norm(k), InBoth) + Times(k, Firsts(last.ret.only_old))
Collision ==
    \E a, b \in keys(last.args[1]) : a # b /\ Norm(a) = Norm(b)

PartitionNormalized ==
    /\ \A k \in keys(last.args[2]) : InNew(k) = 1
    /\ \A k \in keys(last.args[1]) : InOld(k) = 1
    /\ Len(InBoth) + Len(last.ret.only_new) = Cardinality(keys(last.args[2]))
    /\ Len(InBoth) + Len(last.ret.only_old) = Cardinality(keys(last.args[1]))

InV2 == last.ret.matched \o Firsts(last.ret.expected_diff)
          \o Firsts(last.ret.unexpected_diff) \o Firsts(last.ret.only_expanded)
          \o Firsts(last.ret.only_archive)

PartitionV2 ==
    /\ \A k \in keys(last.args[1]) \cup keys(last.args[2]) : Times(k, InV2) = 1
    /\ Len(InV2) = Cardinality(keys(last.args[1]) \cup keys(last.args[2]))

\* C16: the five buckets partition the keys of the two snapshots: every key
\* of the old and of the new configuration is accounted for by exactly one
\* entry of exactly one bucket (a key of the old configuration by its
\* normalized form where it was compared), in both comparators.
C16_Partition ==
    /\ IsCompare => PartitionNormalized
    /\ IsCompareV2 => PartitionV2

\* The partition holds in compare_with_archive_v2, and in compare_configs
\* when no two keys of the old configuration normalize to the same key.
C16_PartitionUnlessCollision ==
    /\ (IsCompare /\ ~Collision) => PartitionNormalized
    /\ IsCompareV2 => PartitionV2

\* Two old keys of one normalized form, neither in the new configuration:
\* one entry stands for the two.
C16_Witness ==
    /\ IsCompare /\ Collision
    /\ last.args[2] = <<>>
    /\ Len(last.args[1]) = 2
    /\ Len(last.ret.only_old) = 1

\* C17: normalize_key removes the first prefix of the list that the key
\* starts with, and that one only, the prefix of the service coming first;
\* a key that starts with none is returned as it is; SERVICE_FOO_BAR of
\* service-foo becomes BAR.
Candidates(service_name) == <<service_prefix(service_name)>> \o GenericPrefixes
Matching(key, service_name) ==
    {i \in DOMAIN Candidates(service_name) :
        startswith(key, Candidates(service_name)[i])}

C17_FirstPrefixRemoved ==
    IsNormalize =>
       /\ Matching(last.args[1], last.args[2]) = {} => last.ret = last.args[1]
       /\ Matching(last.args[1], last.args[2]) # {} =>
             \E i \in Matching(last.args[1], last.args[2]) :
                /\ \A j \in Matching(last.args[1], last.args[2]) : i <= j
                /\ Candidates(last.args[2])[i] \o last.ret = last.args[1]
       /\ startswith(last.args[1], service_prefix(last.args[2])) =>
             service_prefix(last.args[2]) \o last.ret = last.args[1]
       /\ last.args = <<<<"SERVICE", "_", "FOO", "_", "BAR">>, <<"service", "-", "foo">>>>
             => last.ret = <<"BAR">>

\* A key that starts with the prefix of the service and with a generic one.
C17_Witness ==
    /\ IsNormalize
    /\ last.args = <<<<"CHART", "_", "MCP", "_", "PORT">>, <<"chart">>>>
    /\ last.ret = <<"MCP", "_", "PORT">>
    /\ Cardinality(Matching(last.args[1], last.args[2])) = 2

\* C18: a key of both snapshots is matched when the two values are equal,
\* whatever the allow-set; when they differ it is an expected difference
\* carrying (old, new) if its normalized or its original form is in the
\* allow-set, and an unexpected difference carrying (old, new) otherwise.
Origs(k) == {a \in keys(last.args[1]) : Norm(a) = k}

Placed(k, a, old_val, new_val) ==
    IF old_val = new_val
    THEN /\ <<k, new_val>> \in Entries(last.ret.matched)
         /\ k \notin Entries(Firsts(last.ret.changed) \o Firsts(last.ret.expected_change))
    ELSE IF k \in EXPECTED_CHANGES \/ a \in EXPECTED_CHANGES
    THEN /\ <<k, old_val, new_val>> \in Entries(last.ret.expected_change)
         /\ k \notin Entries(Firsts(last.ret.changed) \o Firsts(last.ret.matched))
    ELSE /\ <<k, old_val, new_val>> \in Entries(last.ret.changed)
         /\ k \notin Entries(Firsts(last.ret.expected_change) \o Firsts(last.ret.matched))

PlacedV2(k, arc_val, exp_val) ==
    IF arc_val = exp_val
    THEN /\ k \in Entries(last.ret.matched)
         /\ k \notin Entries(Firsts(last.ret.unexpected_diff)
                              \o Firsts(last.ret.expected_diff))
    ELSE IF k \in EXPECTED_DIFF_KEYS
    THEN /\ <<k, arc_val, exp_val>> \in Entries(last.ret.expected_diff)
         /\ k \notin Entries(Firsts(last.ret.unexpected_diff)) \cup Entries(last.ret.matched)
    ELSE /\ <<k, arc_val, exp_val>> \in Entries(last.ret.unexpected_diff)
         /\ k \notin Entries(Firsts(last.ret.expected_diff)) \cup Entries(last.ret.matched)

OtherStemOf == ("notes.txt" :> "notes") @@ ("common.txt" :> "common")
file_stem(name) == IF name \in DOMAIN OtherStemOf THEN OtherStemOf[name] ELSE stem(name)

\* parts.index("v2")
index(parts, name) ==
    CHOOSE i \in DOMAIN parts : parts[i] = name /\ \A j \in 1..(i - 1) : parts[j] # name

ValueError == [raised |-> TRUE, ret |-> <<>>]
Returned(value) == [raised |-> FALSE, ret |-> value]

map_shared(relative_parts, file_name) ==
    IF Len(relative_parts) > 3
    THEN Returned(<<relative_parts[2],
                    <<"/", "shared-secrets", "/">>
                      \o join(SubSeq(relative_parts, 3, Len(relative_parts) - 1))
                      \o <<"/">> \o Tokens(file_name)>>)
    ELSE Returned(<<relative_parts[2], <<"/", "shared-secrets", "/">> \o Tokens(file_name)>>)

map_service(relative_parts, file_name) ==
    IF file_name \notin {"common", "prod", "staging"} THEN ValueError
    ELSE Returned(<<file_name,
                    <<"/">> \o join(SubSeq(relative_parts, 1, Len(relative_parts) - 1))>>)

map_relative(relative_parts, file_name) ==
    IF Len(relative_parts) < 2 THEN ValueError
    ELSE IF relative_parts[1] = "shared-secrets" THEN map_shared(relative_parts, file_name)
    ELSE IF relative_parts[1] = "services" THEN map_service(relative_parts, file_name)
    ELSE ValueError

\* file_path is the sequence of its parts
map_file_to_infisical(file_path) ==
    IF \A i \in DOMAIN file_path : file_path[i] # "v2" THEN ValueError
    ELSE map_relative(SubSeq(file_path, index(file_path, "v2") + 1, Len(file_path)),
                      IF file_path = <<>> THEN "" ELSE file_stem(file_path[Len(file_path)]))

\* ------------------------------------------ find_env_files_for_path

\* The paths of a tree are relative to V2_DIR.  The file name of a stem
\* followed by ".env", which is ".env" for the empty stem; a name no tree
\* of the model holds when the model has none.
dot_env(name) ==
    IF name = "" THEN ".env"
    ELSE IF \E n \in DOMAIN StemOf \ {".env"} : StemOf[n] = name
    THEN CHOOSE n \in DOMAIN StemOf \ {".env"} : StemOf[n] = name
    ELSE "unnamed.env"

FindEnvs == <<"common", "staging", "prod">>

\* sorted(d.rglob("*.env")): the *.env files beneath d, in the order of
\* their parts
RECURSIVE rglob_names(_, _, _, _)
rglob_entry(tree, p, name) ==
    IF is_file(tree, p) THEN (IF is_env_file(name) THEN <<p>> ELSE <<>>)
    ELSE rglob_names(tree, p, sorted(iterdir(tree, p)), 1)

rglob_names(tree, d, names, i) ==
    IF i > Len(names) THEN <<>>
    ELSE rglob_entry(tree, Append(d, names[i]), names[i])
           \o rglob_names(tree, d, names, i + 1)

rglob(tree, d) == rglob_names(tree, d, sorted(iterdir(tree, d)), 1)

parent(p) == SubSeq(p, 1, Len(p) - 1)
with_suffix(p) == Append(parent(p), stem(p[Len(p)]))

\* lines 860-866
RECURSIVE find_service_files(_, _)
find_service_files(env_files, i) ==
    IF i > Len(env_files) THEN <<>>
    ELSE (IF env_files[i][Len(env_files[i])] \in {"common.env", "staging.env", "prod.env"}
          THEN <<<<env_files[i], stem(env_files[i][Len(env_files[i])]),
                   <<"/">> \o join(parent(env_files[i]))>>>>
          ELSE <<>>)
         \o find_service_files(env_files, i + 1)

\* lines 868-871
RECURSIVE find_service_envs(_, _, _, _)
find_service_envs(tree, service_dir, infisical_path, i) ==
    IF i > Len(FindEnvs) THEN <<>>
    ELSE (IF exists(tree, Append(service_dir, dot_env(FindEnvs[i])))
          THEN <<<<Append(service_dir, dot_env(FindEnvs[i])), FindEnvs[i], infisical_path>>>>
          ELSE <<>>)
         \o find_service_envs(tree, service_dir, infisical_path, i + 1)

\* A variant that never descends
find_services_flat(tree, infisical_path, recursive, service_dir) ==
    find_service_envs(tree, service_dir, infisical_path, 1)

\* V2_DIR / "/".join(path_parts): a Path has no empty part
find_services(tree, infisical_path, recursive, service_dir) ==
    IF recursive /\ exists(tree, service_dir)
    THEN find_service_files(rglob(tree, service_dir), 1)
    ELSE find_service_envs(tree, service_dir, infisical_path, 1)

\* lines 884-889: env_files beneath V2_DIR / "shared-secrets" / env_name
RECURSIVE find_shared_files(_, _, _)
find_shared_files(env_files, env_name, i) ==
    IF i > Len(env_files) THEN <<>>
    ELSE <<<<env_files[i], env_name,
             <<"/", "shared-secrets", "/">>
               \o join(with_suffix(SubSeq(env_files[i], 3, Len(env_files[i]))))>>>>
         \o find_shared_files(env_files, env_name, i + 1)

\* lines 879-889; secret_parts are the parts of secret_name
RECURSIVE find_shared_recursive(_, _, _)
find_shared_recursive(tree, secret_parts, i) ==
    IF i > Len(FindEnvs) THEN <<>>
    ELSE (IF exists(tree, <<"shared-secrets", FindEnvs[i]>> \o secret_parts)
          THEN find_shared_files(rglob(tree, <<"shared-secrets", FindEnvs[i]>> \o secret_parts),
                                 FindEnvs[i], 1)
          ELSE <<>>)
         \o find_shared_recursive(tree, secret_parts, i + 1)

\* f"{secret_name}.env" beneath the directory of an environment
secret_file(env_name, secret_parts) ==
    IF secret_parts = <<>> THEN <<"shared-secrets", env_name, dot_env("")>>
    ELSE <<"shared-secrets", env_name>> \o parent(secret_parts)
           \o <<dot_env(secret_parts[Len(secret_parts)])>>

\* lines 891-894
RECURSIVE find_shared_envs(_, _, _, _)
find_shared_envs(tree, secret_parts, infisical_path, i) ==
    IF i > Len(FindEnvs) THEN <<>>
    ELSE (IF exists(tree, secret_file(FindEnvs[i], secret_parts))
          THEN <<<<secret_file(FindEnvs[i], secret_parts), FindEnvs[i], infisical_path>>>>
          ELSE <<>>)
         \o find_shared_envs(tree, secret_parts, infisical_path, i + 1)

find_shared(tree, infisical_path, recursive, secret_parts) ==
    IF recursive THEN find_shared_recursive(tree, secret_parts, 1)
    ELSE find_shared_envs(tree, secret_parts, infisical_path, 1)

find_parts(tree, infisical_path, recursive, path_parts) ==
    IF path_parts[1] = "services"
    THEN find_services(tree, infisical_path, recursive,
                       SelectSeq(path_parts, LAMBDA x : x # ""))
    ELSE IF path_parts[1] = "shared-secrets"
    THEN find_shared(tree, infisical_path, recursive,
                     SelectSeq(Tail(path_parts), LAMBDA x : x # ""))
    ELSE <<>>

find_env_files_for_path(tree, infisical_path, recursive) ==
    find_parts(tree, infisical_path, recursive, split(strip(infisical_path)))

\* ----------------------------------------------- runs of the path mapper

MaxParts == 3
MaxFiles == 3

MapNames ==
    {"shared-secrets", "services", "common", "bi", "db.env", "prod.env", "notes.txt",
     "common.txt"}
Above == {<<>>, <<"v2">>, <<"envs", "v2">>}
Coordinates ==
    UNION {{a \o r : a \in Above, r \in [1..n -> MapNames]} : n \in 0..MaxParts}

LocalFiles ==
    {<<"shared-secrets", "common", "db.env">>, <<"shared-secrets", "prod", "db.env">>,
     <<"shared-secrets", "staging", "db.env">>, <<"shared-secrets", "prod", "common.env">>,
     <<"shared-secrets", "prod", "common", "api.env">>,
     <<"shared-secrets", "staging", "nested", "api.env">>,
     <<"services", "bi", "common.env">>, <<"services", "bi", "prod.env">>,
     <<"services", "bi", "backend", "staging.env">>, <<"services", "bi", "db.env">>,
     <<"services", "bi", ".git", "common.env">>, <<"shared-secrets", "common", ".env">>}

LocalTrees ==
    {[f \in S |-> <<>>] : S \in {T \in SUBSET LocalFiles : Cardinality(T) <= MaxFiles}}

RemotePaths ==
    {<<"/", "services", "/", "bi">>, <<"/", "services", "/", "bi", "/">>,
     <<"services", "/", "bi", "/", "backend">>, <<"/", "services">>,
     <<"/", "shared-secrets", "/", "db">>, <<"/", "shared-secrets", "/", "common">>,
     <<"/", "shared-secrets", "/", "nested", "/", "api">>, <<"/", "shared-secrets">>,
     <<"/", "bi", "/", "common">>, <<>>}

MapFileToInfisical ==
    /\ last.op = "none"
    /\ \E file_path \in Coordinates :
          last' = [op |-> "map_file_to_infisical", args |-> <<file_path>>,
                   raised |-> map_file_to_infisical(file_path).raised,
                   ret |-> map_file_to_infisical(file_path).ret]
    /\ UNCHANGED <<renvs, rfolders, rsecrets, rimports, calls>>

FindEnvFilesForPath ==
    /\ last.op = "none"
    /\ \E tree \in LocalTrees, infisical_path \in RemotePaths, recursive \in BOOLEAN :
          last' = [op |-> "find_env_files_for_path",
                   args |-> <<tree, infisical_path, recursive>>,
                   raised |-> FALSE,
                   ret |-> find_env_files_for_path(tree, infisical_path, recursive)]
    /\ UNCHANGED <<renvs, rfolders, rsecrets, rimports, calls>>

NextPaths == MapFileToInfisical \/ FindEnvFilesForPath

SpecPaths == Init /\ [][NextPaths]_vars

\* --------------------------------------------- claims about the path mapper

IsMap == last.op = "map_file_to_infisical"
IsFind == last.op = "find_env_files_for_path"

HasV2 == \E i \in DOMAIN last.args[1] : last.args[1][i] = "v2"
\* The parts after the first "v2"
Rel ==
    SubSeq(last.args[1],
           1 + CHOOSE i \in DOMAIN last.args[1] :
                  last.args[1][i] = "v2" /\ \A j \in 1..(i - 1) : last.args[1][j] # "v2",
           Len(last.args[1]))
Dirs(rel) == SubSeq(rel, 2, Len(rel) - 1)

\* <env-dir>/<...nested subdirs>/<name>.env beneath shared-secrets
SharedCoordinate(rel) ==
    Len(rel) >= 3 /\ rel[1] = "shared-secrets" /\ is_env_file(rel[Len(rel)])
\* <...nested service dirs>/<env-name>.env beneath services
ServiceCoordinate(rel) ==
    /\ Len(rel) >= 2 /\ rel[1] = "services"
    /\ rel[Len(rel)] \in {"common.env", "prod.env", "staging.env"}

RECURSIVE Slashed(_)
Slashed(names) ==
    IF names = <<>> THEN <<>> ELSE <<"/", Head(names)>> \o Slashed(Tail(names))

SharedPair(rel) ==
    <<rel[2], <<"/", "shared-secrets">> \o Slashed(SubSeq(rel, 3, Len(rel) - 1))
                \o <<"/", StemOf[rel[Len(rel)]]>>>>
ServicePair(rel) ==
    <<StemOf[rel[Len(rel)]], Slashed(SubSeq(rel, 1, Len(rel) - 1))>>

\* C19: a coordinate of the shared or of the service grammar beneath v2 is
\* mapped to its one (environment, remote path) pair, and every other
\* coordinate, a file directly beneath shared-secrets included, raises.
C19_MapsOrFails ==
    IsMap =>
       IF HasV2 /\ SharedCoordinate(Rel)
       THEN ~last.raised /\ last.ret = SharedPair(Rel)
       ELSE IF HasV2 /\ ServiceCoordinate(Rel)
       THEN ~last.raised /\ last.ret = ServicePair(Rel)
       ELSE last.raised

\* What holds: the coordinates of the two grammars are mapped to their
\* pair, and a call raises exactly when v2 is missing, fewer than two parts
\* follow it, the first of them is neither shared-secrets nor services, or
\* the stem of a name beneath services is no environment.
C19_GrammarMapped ==
    IsMap =>
       /\ (HasV2 /\ SharedCoordinate(Rel)) => (~last.raised /\ last.ret = SharedPair(Rel))
       /\ (HasV2 /\ ServiceCoordinate(Rel)) => (~last.raised /\ last.ret = ServicePair(Rel))
       /\ last.raised <=>
             \/ ~HasV2
             \/ Len(Rel) < 2
             \/ Rel[1] \notin {"shared-secrets", "services"}
             \/ /\ Rel[1] = "services"
                /\ file_stem(Rel[Len(Rel)]) \notin {"common", "prod", "staging"}

\* v2/shared-secrets/db.env: no directory of an environment
C19_Witness ==
    /\ IsMap /\ HasV2
    /\ Rel = <<"shared-secrets", "db.env">>
    /\ ~last.raised
    /\ last.ret = <<"db.env", <<"/", "shared-secrets", "/", "db">>>>

ThreeEnvs == {"common", "staging", "prod"}
Found == {last.ret[i][1] : i \in DOMAIN last.ret}
Requested == Canon(last.args[2])
\* The pair map_file_to_infisical gives a file of the tree
Mapped(f) == map_file_to_infisical(<<"v2">> \o f)

\* The recognized files beneath the local directory the path names
Subtree ==
    IF Requested = <<>> THEN {}
    ELSE IF Requested[1] = "services"
    THEN {f \in DOMAIN last.args[1] :
            Beneath(Requested, f) /\ f[Len(f)] \in {"common.env", "staging.env", "prod.env"}}
    ELSE IF Requested[1] = "shared-secrets"
    THEN {f \in DOMAIN last.args[1] :
            /\ is_env_file(f[Len(f)])
            /\ \E e \in ThreeEnvs : Beneath(<<"shared-secrets", e>> \o Tail(Requested), f)}
    ELSE {}

\* C20: without recursion at most three entries are returned, no two of
\* one environment, each a file of the tree that is paired with the path
\* as requested and maps to that path in its environment (but for the path
\* of the shared namespace itself, which names the file .env); with
\* recursion the entries are, once each, the recognized files beneath the
\* local directory of the path, services or shared-secrets, each with the
\* environment and the remote path it maps to.
C20_FoundFiles ==
    IsFind =>
       /\ \A i, j \in DOMAIN last.ret : i # j => last.ret[i][1] # last.ret[j][1]
       /\ \A i \in DOMAIN last.ret :
             /\ is_file(last.args[1], last.ret[i][1])
             /\ last.ret[i][2] \in ThreeEnvs
             /\ ~Mapped(last.ret[i][1]).raised
             /\ Mapped(last.ret[i][1]).ret[1] = last.ret[i][2]
       /\ ~last.args[3] =>
             /\ Len(last.ret) <= 3
             /\ \A i, j \in DOMAIN last.ret : i # j => last.ret[i][2] # last.ret[j][2]
             /\ \A i \in DOMAIN last.ret :
                   /\ last.ret[i][3] = last.args[2]
                   /\ Requested # <<"shared-secrets">> =>
                         Canon(Mapped(last.ret[i][1]).ret[2]) = Requested
       /\ last.args[3] =>
             /\ Found = Subtree
             /\ \A i \in DOMAIN last.ret :
                   last.ret[i][3] = Mapped(last.ret[i][1]).ret[2]

\* A recursive call on a service with a file of its own and a nested one
C20_Witness ==
    /\ IsFind /\ last.args[3]
    /\ last.args[2] = <<"/", "services", "/", "bi">>
    /\ Len(last.ret) = 2
    /\ last.ret[1] = <<<<"services", "bi", "backend", "staging.env">>, "staging",
                        <<"/", "services", "/", "bi", "/", "backend">>>>
    /\ last.ret[2][3] = <<"/", "services", "/", "bi">>

\* A call without recursion that finds the file of each environment
C20_WitnessThree ==
    /\ IsFind /\ ~last.args[3]
    /\ last.args[2] = <<"/", "shared-secrets", "/", "db">>
    /\ Len(last.ret) = 3
    /\ [i \in 1..3 |-> last.ret[i][2]] = FindEnvs

\* =====================================================================
\* Further claims about runs of main
\* =====================================================================

IsApplySync == IsFullSync /\ ~last.dry_run

\* The (environment, path, key) records the local tree defines
LocalRecords(tree) ==
    UNION {{<<Mapped(f).ret[1], Canon(Mapped(f).ret[2]), k>> :
              k \in DOMAIN parse_env_file(tree[f]).val} : f \in DOMAIN tree}

RemoteOnly == DOMAIN last.pre.secrets \ LocalRecords(last.args[2])
Kept(t) == t \in DOMAIN rsecrets /\ rsecrets[t] = last.pre.secrets[t]

\* C21 as stated: a full sync in apply mode leaves every remote secret
\* that the local tree does not define in place with its value.
C21_RemoteOnlyKept == IsApplySync => \A t \in RemoteOnly : Kept(t)

\* C21: a full sync in apply mode leaves every remote secret that the
\* local tree does not define in place with its value, those of the
\* environment dev excepted, which step 1 deletes with all it holds.
C21_RemoteOnlyKeptOutsideDev ==
    IsApplySync => \A t \in RemoteOnly : t[1] # "dev" => Kept(t)

\* A sync that wrote next to a remote-only secret and dropped dev
C21_Witness ==
    /\ IsApplySync /\ last.status = "done"
    /\ "dev" \in last.pre.envs /\ "dev" \notin renvs
    /\ \E t \in RemoteOnly : t[1] = "dev" /\ t \notin DOMAIN rsecrets
    /\ \E t \in RemoteOnly : t[1] = "common" /\ Kept(t)
    /\ \E i \in DOMAIN calls : calls[i].op = "create_secret" /\ calls[i].ok

\* The connection test of a run: the login it needs and get_project. The
\* index of the request that made it fail, 0 when it passed.
CheckFailedAt ==
    IF calls = <<>> THEN 0
    ELSE IF calls[1].op = "login" /\ ~calls[1].ok THEN 1
    ELSE IF calls[1].op = "get_project" /\ ~calls[1].ok THEN 1
    ELSE IF Len(calls) >= 2 /\ calls[1].op = "login" /\ calls[2].op = "get_project"
            /\ ~calls[2].ok THEN 2
    ELSE 0

\* C22: when the login or the get_project request of the connection test
\* fails, the run exits at once: the failed request is the last request of
\* the run, no other kind of request was issued, and the remote is as it
\* was; a run exits that way for no other reason.
C22_FailedCheckAborts ==
    IsRun =>
       /\ CheckFailedAt # 0 =>
             /\ last.status = "exit"
             /\ Len(calls) = CheckFailedAt
             /\ \A i \in DOMAIN calls : calls[i].op \in {"login", "get_project"}
             /\ Remote = last.pre
       /\ last.status = "exit" => CheckFailedAt # 0

\* The login passed and get_project failed, on a run that would have written
C22_Witness ==
    /\ IsApplySync /\ last.status = "exit"
    /\ CheckFailedAt = 2 /\ Len(calls) = 2
    /\ calls[1].ok
    /\ last.args[2] = Tree1

FailedOps == {calls[i].op : i \in {j \in DOMAIN calls : ~calls[j].ok}}
\* Every file of the tree was reconciled (the trees hold config files only)
AllFilesVisited ==
    Len(last.shared.visited) + Len(last.services.visited)
       = Cardinality(DOMAIN last.args[2])

\* C23 as stated: once the connection test has passed, a full sync with a
\* failing request of any kind runs to its end and reconciles every file
\* of the tree.
C23_FailureCaught ==
    (IsFullSync /\ CheckFailedAt = 0) => (last.status = "done" /\ AllFilesVisited)

\* What holds: the run goes on after a failed secret write and a failed
\* deletion of dev, and then reconciles every file; it ends with an
\* exception nobody catches exactly when a request of another kind fails:
\* a listing or creation of an environment, of a folder or of an import
\* edge, or a listing of secrets.
C23_WriteFailuresCaught ==
    (IsFullSync /\ CheckFailedAt = 0) =>
       /\ last.status # "exit"
       /\ last.status = "done" => AllFilesVisited
       /\ last.status = "crash" <=>
             FailedOps \ {"create_secret", "update_secret", "delete_environment"} # {}

\* The listing of folders for the first file fails: the run ends there
C23_Witness ==
    /\ IsApplySync /\ CheckFailedAt = 0
    /\ last.status = "crash"
    /\ FailedOps = {"list_folders"}
    /\ ~calls[Len(calls)].ok
    /\ Len(last.shared.visited) + Len(last.services.visited) = 0
    /\ Cardinality(DOMAIN last.args[2]) = 3


\* =====================================================================
\* The precise sync (--file, --path) and the cleanup of deprecated paths
\* =====================================================================

\* The parts of BASE_DIR.  The local tree is BASE_DIR/v2; Elsewhere holds
\* the files BASE_DIR has outside it.  A file argument is the sequence of
\* its parts, relative to BASE_DIR.
BASE_DIR == <<"infisical-envs">>
Elsewhere == {<<"archive", "prod.env">>}

\* line 1137: (BASE_DIR / file_arg).exists()
arg_exists(tree, file_arg) ==
    \/ file_arg \in Elsewhere
    \/ file_arg # <<>> /\ file_arg[1] = "v2" /\ exists(tree, Tail(file_arg))

\* What a call hands to its caller: the remote, the statistics, and whether it raised
Outcome(r) == [st |-> r.st, ret |-> r.ret, raised |-> r.raised]

\* open(file_path) of set_secrets_from_env raises on a directory
single_read(st, tree, file_arg, environment, infisical_path, dry_run) ==
    IF ~is_file(tree, Tail(file_arg)) THEN [st |-> st, ret |-> ZeroStats, raised |-> TRUE]
    ELSE Outcome(set_secrets_from_env(st, environment, tree[Tail(file_arg)], infisical_path,
                                      dry_run))

\* lines 911-915: e is the outcome of ensure_folder_path, outside any try
single_ensured(e, tree, file_arg, environment, infisical_path, dry_run) ==
    IF e.raised THEN [st |-> e.st, ret |-> ZeroStats, raised |-> TRUE]
    ELSE single_read(e.st, tree, file_arg, environment, infisical_path, dry_run)

\* Mutant: a file that cannot be mapped is reconciled at the root of common.
single_mapped_anyway(st, tree, file_arg, mapped, dry_run) ==
    IF mapped.raised
    THEN [st |-> list_secrets(st, "common", <<"/">>).st,
          ret |-> Bump(ZeroStats, "failed"), raised |-> FALSE]
    ELSE single_ensured(IF dry_run THEN [st |-> st, raised |-> FALSE]
                        ELSE ensure_folder_path(st, mapped.ret[1], mapped.ret[2]),
                        tree, file_arg, mapped.ret[1], mapped.ret[2], dry_run)

\* lines 901-915: mapped is the outcome of map_file_to_infisical
single_mapped(st, tree, file_arg, mapped, dry_run) ==
    IF mapped.raised
    THEN [st |-> st, ret |-> Bump(ZeroStats, "failed"), raised |-> FALSE]
    ELSE single_ensured(IF dry_run THEN [st |-> st, raised |-> FALSE]
                        ELSE ensure_folder_path(st, mapped.ret[1], mapped.ret[2]),
                        tree, file_arg, mapped.ret[1], mapped.ret[2], dry_run)

sync_single_file(st, tree, file_arg, dry_run) ==
    single_mapped(st, tree, file_arg, map_file_to_infisical(BASE_DIR \o file_arg), dry_run)

\* lines 938-948: the files found for the path, in order; the loop ends when
\* a call raises.  found[i] = <<file, environment, path>>
RECURSIVE by_path_loop(_, _, _, _, _)
by_path_reconciled(acc, r, tree, found, i, dry_run) ==
    IF r.raised THEN [st |-> r.st, ret |-> acc.ret, raised |-> TRUE]
    ELSE by_path_loop([st |-> r.st, ret |-> Add(acc.ret, r.ret), raised |-> FALSE],
                      tree, found, i + 1, dry_run)

by_path_ensured(acc, e, tree, found, i, dry_run) ==
    IF e.raised THEN [st |-> e.st, ret |-> acc.ret, raised |-> TRUE]
    ELSE by_path_reconciled(acc,
                            set_secrets_from_env(e.st, found[i][2], tree[found[i][1]],
                                                 found[i][3], dry_run),
                            tree, found, i, dry_run)

by_path_loop(acc, tree, found, i, dry_run) ==
    IF i > Len(found) THEN acc
    ELSE by_path_ensured(acc,
                         IF dry_run THEN [st |-> acc.st, raised |-> FALSE]
                         ELSE ensure_folder_path(acc.st, found[i][2], found[i][3]),
                         tree, found, i, dry_run)

\* lines 930-955: with no file found the statistics are all zero
sync_by_path(st, tree, infisical_path, dry_run, recursive) ==
    by_path_loop([st |-> st, ret |-> ZeroStats, raised |-> FALSE], tree,
                 find_env_files_for_path(tree, infisical_path, recursive), 1, dry_run)

\* What main keeps of one argument: the requests it issued, what it returned
Did(before, r) ==
    [calls |-> Len(r.st.log) - Len(before.log), ret |-> r.ret, raised |-> r.raised]

\* lines 1132-1142: acc = [st, total, raised, files, paths]
RECURSIVE precise_files(_, _, _, _, _)
precise_file_synced(acc, r, tree, files, i, dry_run) ==
    precise_files([acc EXCEPT !.st = r.st, !.raised = r.raised,
                              !.total = IF r.raised THEN @ ELSE Add(@, r.ret),
                              !.files = Append(@, Did(acc.st, r))],
                  tree, files, i + 1, dry_run)

precise_files(acc, tree, files, i, dry_run) ==
    IF acc.raised \/ i > Len(files) THEN acc
    ELSE IF ~arg_exists(tree, files[i])
    THEN precise_files([acc EXCEPT !.total = Bump(@, "failed"),
                                   !.files = Append(@, [calls |-> 0,
                                                        ret |-> Bump(ZeroStats, "failed"),
                                                        raised |-> FALSE])],
                       tree, files, i + 1, dry_run)
    ELSE precise_file_synced(acc, sync_single_file(acc.st, tree, files[i], dry_run),
                             tree, files, i, dry_run)

\* lines 1145-1151
RECURSIVE precise_paths(_, _, _, _, _, _)
precise_path_synced(acc, r, tree, paths, i, dry_run, recursive) ==
    precise_paths([acc EXCEPT !.st = r.st, !.raised = r.raised,
                              !.total = IF r.raised THEN @ ELSE Add(@, r.ret),
                              !.paths = Append(@, Did(acc.st, r))],
                  tree, paths, i + 1, dry_run, recursive)

precise_paths(acc, tree, paths, i, dry_run, recursive) ==
    IF acc.raised \/ i > Len(paths) THEN acc
    ELSE precise_path_synced(acc, sync_by_path(acc.st, tree, paths[i], dry_run, recursive),
                             tree, paths, i, dry_run, recursive)

NoArgs(st) == [st |-> st, total |-> ZeroStats, raised |-> FALSE, files |-> <<>>, paths |-> <<>>]

\* lines 1124-1161: args = [files, paths, recursive]
precise_sync(st, args, tree, dry_run) ==
    precise_paths(precise_files(NoArgs(st), tree, args.files, 1, dry_run),
                  tree, args.paths, 1, dry_run, args.recursive)

Ended(status, acc) == [status |-> status] @@ acc

precise_done(acc) == Ended(IF acc.raised THEN "crash" ELSE "done", acc)

\* lines 1116-1121 and 1124: project is the outcome of get_project
main_precise_project(project, args, tree, dry_run) ==
    IF ~project.ok THEN Ended("exit", NoArgs(project.st))
    ELSE precise_done(precise_sync(project.st, args, tree, dry_run))

\* main with --file or --path
main_precise(st, args, tree, dry_run) ==
    main_precise_project(get_project(st), args, tree, dry_run)

\* ------------------------------------------- cleanup_deprecated_paths

\* lines 965-971
deprecated_paths ==
    <<<<"/", "services", "/", "bi-backend">>, <<"/", "services", "/", "bi-dashboard">>,
      <<"/", "services", "/", "bi-mcp">>>>
environments == <<"common", "prod", "staging">>
ZeroCleanup == [deleted |-> 0, not_found |-> 0, failed |-> 0]

\* The n-th pair of a path and an environment, paths outermost (lines 976-977)
pair_env(n) == environments[((n - 1) % Len(environments)) + 1]
pair_path(n) == deprecated_paths[((n - 1) \div Len(environments)) + 1]

RECURSIVE cleanup_loop(_, _, _, _)

\* lines 981-990: l is the outcome of list_folders on the parent, inside the try
cleanup_previewed(l, stats, n, dry_run) ==
    IF ~l.ok THEN cleanup_loop(l.st, Bump(stats, "failed"), n + 1, dry_run)
    ELSE IF folder_name_of(pair_path(n)) \in l.val
    THEN cleanup_loop(l.st, Bump(stats, "deleted"), n + 1, dry_run)
    ELSE cleanup_loop(l.st, Bump(stats, "not_found"), n + 1, dry_run)

\* lines 992-1001: d is the outcome of delete_folder_by_path, inside the try
cleanup_deleted(d, stats, n, dry_run) ==
    IF d.raised THEN cleanup_loop(d.st, Bump(stats, "failed"), n + 1, dry_run)
    ELSE IF d.ret THEN cleanup_loop(d.st, Bump(stats, "deleted"), n + 1, dry_run)
    ELSE cleanup_loop(d.st, Bump(stats, "not_found"), n + 1, dry_run)

\* lines 976-1002
cleanup_loop(st, stats, n, dry_run) ==
    IF n > Len(deprecated_paths) * Len(environments) THEN [st |-> st, stats |-> stats]
    ELSE IF dry_run
    THEN cleanup_previewed(list_folders(st, pair_env(n), parent_of(pair_path(n))),
                           stats, n, dry_run)
    ELSE cleanup_deleted(delete_folder_by_path(st, pair_env(n), pair_path(n)),
                         stats, n, dry_run)

cleanup_deprecated_paths(st, dry_run) == cleanup_loop(st, ZeroCleanup, 1, dry_run)

cleanup_done(acc) == [st |-> acc.st, status |-> "done", stats |-> acc.stats]

\* lines 1116-1121 and 1164-1166: project is the outcome of get_project
main_cleanup_project(project, dry_run) ==
    IF ~project.ok THEN [st |-> project.st, status |-> "exit", stats |-> ZeroCleanup]
    ELSE cleanup_done(cleanup_deprecated_paths(project.st, dry_run))

\* main with --cleanup
main_cleanup(st, dry_run) == main_cleanup_project(get_project(st), dry_run)

\* ------------------------------------- runs of precise sync and cleanup

MaxArgs == 2   \* file arguments of one command line

\* Tree1 with a file of a service that is named after no environment
Tree3 == (<<"services", "bi", "db.env">> :> <<KvLine("A", "1")>>) @@ Tree1

\* File arguments: two files that map, a file and a directory of the tree
\* and a file outside it that do not, and a file that does not exist
FileArgs ==
    {<<"v2", "services", "bi", "common.env">>, <<"v2", "shared-secrets", "common", "db.env">>,
     <<"v2", "services", "bi", "db.env">>, <<"v2", "services", "bi">>,
     <<"archive", "prod.env">>, <<"v2", "services", "bi", "staging.env">>}
PathArgs ==
    {<<"/", "services", "/", "bi">>, <<"/", "shared-secrets", "/", "db">>,
     <<"/", "services", "/", "none">>}

PreciseArgs ==
    {[files |-> f, paths |-> p, recursive |-> r] :
        f \in UNION {[1..n -> FileArgs] : n \in 0..MaxArgs},
        p \in {<<>>} \cup {<<q>> : q \in PathArgs}, r \in BOOLEAN} \
    {a \in [files : {<<>>}, paths : {<<>>}, recursive : BOOLEAN] : TRUE}

\* A project that still has the deprecated folders of the services
LegacyRemote ==
    [envs |-> {"common", "prod", "staging"},
     folders |-> SetToBag({<<"common", <<"services">>>>,
                           <<"common", <<"services", "bi-backend">>>>,
                           <<"common", <<"services", "bi-backend", "old">>>>,
                           <<"prod", <<"services">>>>,
                           <<"prod", <<"services", "bi-mcp">>>>}),
     secrets |-> (<<"common", <<"services", "bi-backend">>, "A">> :> "1")
                 @@ (<<"common", <<"services", "bi-backend", "old">>, "B">> :> "1")
                 @@ (<<"common", <<"services", "bi">>, "B">> :> "2"),
     imports |-> SetToBag({<<"prod", <<"services", "bi-mcp">>, "common",
                             <<"/", "services", "/", "bi-mcp">>>>})]

InitPrecise ==
    /\ \E r \in {FreshRemote, UsedRemote, LegacyRemote} :
          /\ renvs = r.envs
          /\ rfolders = r.folders
          /\ rsecrets = r.secrets
          /\ rimports = r.imports
    /\ calls = <<>>
    /\ last = NoOp

\* The remote as a new process finds it
PreciseStore(F, cascade) == [DelStore(F, cascade) EXCEPT !.token = FALSE]

PreciseRan(args, tree, dry_run, F, r) ==
    /\ Install(r.st)
    /\ last' = [op |-> "main --file --path", args |-> <<args, tree>>, dry_run |-> dry_run,
                F |-> F, pre |-> Remote, status |-> r.status, total |-> r.total,
                files |-> r.files, paths |-> r.paths, token |-> r.st.token]

\* At most one request of the run fails, among those it would issue
PreciseSync ==
    /\ last.op = "none"
    /\ \E args \in PreciseArgs, dry_run \in BOOLEAN :
         \E F \in {{}} \cup {{n} : n \in 1..Len(main_precise(PreciseStore({}, FALSE), args,
                                                             Tree3, dry_run).st.log)} :
            PreciseRan(args, Tree3, dry_run, F,
                       main_precise(PreciseStore(F, FALSE), args, Tree3, dry_run))

CleanedUp(dry_run, F, cascade, r) ==
    /\ Install(r.st)
    /\ last' = [op |-> "main --cleanup", dry_run |-> dry_run, F |-> F, cascade |-> cascade,
                pre |-> Remote, status |-> r.status, stats |-> r.stats,
                token |-> r.st.token]

Cleanup ==
    /\ last.op = "none"
    /\ \E dry_run, cascade \in BOOLEAN :
         \E F \in {{}} \cup {{n} : n \in 1..Len(main_cleanup(PreciseStore({}, cascade),
                                                             dry_run).st.log)} :
            CleanedUp(dry_run, F, cascade, main_cleanup(PreciseStore(F, cascade), dry_run))

NextPrecise == PreciseSync \/ Cleanup

SpecPrecise == InitPrecise /\ [][NextPrecise]_vars

\* ------------------------------------ claims about the precise sync

IsPrecise == last.op = "main --file --path"

\* The listed file exists and map_file_to_infisical raises on it
Unmapped(tree, file_arg) ==
    arg_exists(tree, file_arg) /\ map_file_to_infisical(BASE_DIR \o file_arg).raised

\* The remote of the state before the run, as the same process finds it
StoreBefore == [PreciseStore(last.F, FALSE) EXCEPT
                   !.envs = last.pre.envs, !.folders = last.pre.folders,
                   !.secrets = last.pre.secrets, !.imports = last.pre.imports]

\* The run did what r did, but for failed more failures in its total
SameBut(r, failed) ==
    /\ calls = r.st.log
    /\ renvs = r.st.envs /\ rfolders = r.st.folders
    /\ rsecrets = r.st.secrets /\ rimports = r.st.imports
    /\ last.status = r.status
    /\ last.paths = r.paths
    /\ last.status = "done" => last.total = [r.total EXCEPT !.failed = @ + failed]

\* C24: a listed file that exists and cannot be mapped issues no remote
\* call and is reported as one failure, and the run issues the requests,
\* leaves the remote, ends and reports the totals as the same command line
\* without the files that cannot be mapped does, one failure per such file
\* apart.
C24_InvalidCoordinateSkipped ==
    IsPrecise =>
       /\ \A i \in DOMAIN last.files :
             Unmapped(last.args[2], last.args[1].files[i]) =>
                last.files[i] = [calls |-> 0, ret |-> Bump(ZeroStats, "failed"),
                                 raised |-> FALSE]
       /\ SameBut(main_precise(StoreBefore,
                               [last.args[1] EXCEPT
                                   !.files = SelectSeq(@, LAMBDA f : ~Unmapped(last.args[2], f))],
                               last.args[2], last.dry_run),
                  Cardinality({i \in DOMAIN last.files :
                                 Unmapped(last.args[2], last.args[1].files[i])}))

\* A file of the tree that cannot be mapped is listed before one that can,
\* and a path after them; the second file and the path are written.
C24_Witness ==
    /\ IsPrecise /\ ~last.dry_run /\ last.status = "done"
    /\ last.args[1].files = <<<<"v2", "services", "bi", "db.env">>,
                              <<"v2", "services", "bi", "common.env">>>>
    /\ last.args[1].paths = <<<<"/", "shared-secrets", "/", "db">>>>
    /\ last.files[1].calls = 0 /\ last.files[1].ret.failed = 1
    /\ last.files[2].ret.created = 1
    /\ last.paths[1].ret.updated = 1
    /\ last.total = [created |-> 1, updated |-> 1, unchanged |-> 0, failed |-> 1]

\* ------------------------------------ claims about the failed counts

IsCleanup == last.op = "main --cleanup"

\* The requests of the run that failed
FailedAll == {i \in DOMAIN calls : ~calls[i].ok}

\* The listed files that do not exist or cannot be mapped, and the listed
\* paths no local file is found for
NoCoordinate ==
    Cardinality({i \in DOMAIN last.args[1].files :
                   \/ ~arg_exists(last.args[2], last.args[1].files[i])
                   \/ Unmapped(last.args[2], last.args[1].files[i])})
    + Cardinality({i \in DOMAIN last.args[1].paths :
                     find_env_files_for_path(last.args[2], last.args[1].paths[i],
                                             last.args[1].recursive) = <<>>})

\* C25: a precise sync or a cleanup that ran to its end reports one
\* failure for every request that failed and for every coordinate that
\* could not be mapped.
C25_FailuresCounted ==
    /\ (IsPrecise /\ last.status = "done") =>
          last.total.failed = Cardinality(FailedAll) + NoCoordinate
    /\ (IsCleanup /\ last.status = "done") =>
          last.stats.failed = Cardinality(FailedAll)

\* A path no local file is found for, and no failed request: the totals
\* of the run are all zero.
C25_Witness ==
    /\ IsPrecise /\ last.status = "done"
    /\ last.args[1].files = <<>>
    /\ last.args[1].paths = <<<<"/", "services", "/", "none">>>>
    /\ FailedAll = {}
    /\ last.total = ZeroStats

\* A cleanup in which the deletion of a secret failed and that reports no failure
C25_WitnessCleanup ==
    /\ IsCleanup /\ ~last.dry_run /\ last.status = "done"
    /\ {calls[i].op : i \in FailedAll} = {"delete_secret"}
    /\ last.stats = [deleted |-> 2, not_found |-> 7, failed |-> 0]

\* ------------------------------------------------ runs of the walkers

\* Files next to a directory with a file, among the shared secrets and in a service
Tree4 ==
    (<<"shared-secrets", "common", "db.env">> :> <<KvLine("A", "1")>>)
    @@ (<<"shared-secrets", "common", "api.env">> :> <<KvLine("A", "2")>>)
    @@ (<<"shared-secrets", "common", "nested", "api.env">> :> <<KvLine("B", "1")>>)
    @@ (<<"shared-secrets", "prod", "db.env">> :> <<KvLine("A", "1")>>)
    @@ (<<"services", "bi", "prod.env">> :> <<KvLine("B", "2")>>)
    @@ (<<"services", "bi", "common.env">> :> <<KvLine("B", "1")>>)
    @@ (<<"services", "bi", "backend", "staging.env">> :> <<KvLine("C", "1")>>)
WalkTrees == {Tree1, Tree2, Tree4}

InitWalk ==
    /\ \E r \in {UsedRemote, LegacyRemote} :
          /\ renvs = r.envs
          /\ rfolders = r.folders
          /\ rsecrets = r.secrets
          /\ rimports = r.imports
    /\ calls = <<>>
    /\ last = NoOp

Walked(step, tree, dry_run, w) ==
    /\ Install(w.st)
    /\ last' = [op |-> "walk", step |-> step, args |-> <<tree>>, dry_run |-> dry_run,
                pre |-> Remote, raised |-> w.raised, ret |-> w.ret, visited |-> w.visited]

\* Up to MaxFailures requests of a walk fail, among those it would issue
WalkFailures(n) == {F \in SUBSET (1..n) : Cardinality(F) <= MaxFailures}

Step2ImportSharedSecrets ==
    /\ last.op = "none"
    /\ \E tree \in WalkTrees, dry_run \in BOOLEAN :
         \E F \in WalkFailures(Len(step2_import_shared_secrets(Store({}), tree,
                                                               dry_run).st.log)) :
            Walked(2, tree, dry_run, step2_import_shared_secrets(Store(F), tree, dry_run))

Step3ImportServices ==
    /\ last.op = "none"
    /\ \E tree \in WalkTrees, dry_run \in BOOLEAN :
         \E F \in WalkFailures(Len(step3_import_services(Store({}), tree, dry_run).st.log)) :
            Walked(3, tree, dry_run, step3_import_services(Store(F), tree, dry_run))

NextWalk == Step2ImportSharedSecrets \/ Step3ImportServices

SpecWalk == InitWalk /\ [][NextWalk]_vars

\* ---------------------------------------- claims about the tree walkers

IsWalk == last.op = "walk"
WalkTop == IF last.step = 2 THEN "shared-secrets" ELSE "services"

\* The config files of a subtree of V2_DIR
ConfigFiles(tree, top) == {f \in DOMAIN tree : f[1] = top /\ ~Mapped(f).raised}

\* Where the walk of a config file reconciles it
Target(f) == <<Mapped(f).ret[1], Canon(Mapped(f).ret[2])>>

\* The per-file statistics of a walk summed from the last visit to the first
RECURSIVE SumBack(_, _)
SumBack(visited, i) ==
    IF i = 0 THEN ZeroStats ELSE Add(visited[i].stats, SumBack(visited, i - 1))

\* C26: the totals a walk over the shared secrets or over the services
\* returns are the component-wise sum of the statistics of the files it
\* visited, taken in the reverse of the visiting order, and the files
\* visited are the config files of the subtree, each once.
C26_TotalsAreSums ==
    (IsWalk /\ ~last.raised) =>
       /\ last.ret = SumBack(last.visited, Len(last.visited))
       /\ Len(last.visited) = Cardinality(ConfigFiles(last.args[1], WalkTop))
       /\ {<<last.visited[i].env, Canon(last.visited[i].path)>> : i \in DOMAIN last.visited}
             = {Target(f) : f \in ConfigFiles(last.args[1], WalkTop)}

\* Two files of a directory, a file of its subdirectory and a file of the
\* next environment: the write of the second file failed and the others
\* were created.
C26_Witness ==
    /\ IsWalk /\ last.step = 2 /\ ~last.dry_run /\ ~last.raised
    /\ last.args[1] = Tree4
    /\ Len(last.visited) = 4
    /\ last.visited[1].stats.created = 1
    /\ last.visited[2].stats.failed = 1
    /\ last.visited[3].stats.created = 1
    /\ last.visited[4].stats.created = 1
    /\ last.ret = [created |-> 3, updated |-> 0, unchanged |-> 0, failed |-> 1]

\* The place of a name in the order of sorted()
Pos(n) == CHOOSE i \in DOMAIN SortedNames : SortedNames[i] = n

\* The first place where the coordinates of two files differ
Fork(f, g) == CHOOSE k \in 1..Len(f) : f[k] # g[k] /\ \A j \in 1..(k - 1) : f[j] = g[j]

\* f comes before g in the lexicographic descent: at the directory where
\* they part, a file of the directory comes before any subdirectory, and
\* two files or two subdirectories come by name
Descends(f, g, k) ==
    IF Len(f) = k /\ Len(g) > k THEN TRUE
    ELSE IF Len(g) = k /\ Len(f) > k THEN FALSE
    ELSE Pos(f[k]) < Pos(g[k])
Before(f, g) == f # g /\ Descends(f, g, Fork(f, g))

\* The places of the call log where a reconcile call lists its target
Reconciles == {p \in DOMAIN calls : calls[p].op = "list_secrets"}
TargetAt(p) == <<calls[p].env, Canon(calls[p].path)>>
FileAt(p) == CHOOSE f \in ConfigFiles(last.args[1], WalkTop) : Target(f) = TargetAt(p)

\* The last reconcile call before place p, 0 when there is none
Previous(p) ==
    IF \E q \in Reconciles : q < p THEN CHOOSE q \in Reconciles :
                                          q < p /\ \A r \in Reconciles : r < p => r <= q
    ELSE 0

\* C27: in a walk, every reconcile call is for a config file of the
\* subtree; between the reconcile call before it and its own listing,
\* each segment of its target was looked up by ensure_folder_path; every
\* write follows the listing of its own target with no other listing in
\* between; the files are reconciled in the order of the lexicographic
\* descent, files of a directory before its subdirectories, none left out
\* before one that is reconciled, and all of them when the walk returns.
C27_OrderOfCalls ==
    IsWalk =>
       /\ \A p \in Reconciles :
             /\ \E f \in ConfigFiles(last.args[1], WalkTop) : Target(f) = TargetAt(p)
             /\ \A k \in 1..Len(TargetAt(p)[2]) :
                   \E q \in (Previous(p) + 1)..(p - 1) :
                      /\ calls[q].op = "list_folders"
                      /\ calls[q].env = calls[p].env
                      /\ Canon(calls[q].path) = SubSeq(TargetAt(p)[2], 1, k - 1)
             /\ \A g \in ConfigFiles(last.args[1], WalkTop) :
                   Before(g, FileAt(p)) => \E q \in Reconciles : q < p /\ FileAt(q) = g
       /\ \A p, q \in Reconciles : p < q => Before(FileAt(p), FileAt(q))
       /\ \A w \in DOMAIN calls :
             calls[w].op \in WriteOps =>
                /\ Previous(w) # 0
                /\ TargetAt(w) = TargetAt(Previous(w))
       /\ ~last.raised =>
             Cardinality(Reconciles) = Cardinality(ConfigFiles(last.args[1], WalkTop))

\* Two files of a directory, then the file of its subdirectory whose
\* folder is created before it is reconciled, then the file of prod.
C27_Witness ==
    /\ IsWalk /\ last.step = 2 /\ ~last.dry_run /\ ~last.raised
    /\ last.args[1] = Tree4
    /\ [i \in 1..4 |-> <<last.visited[i].env, last.visited[i].path>>]
          = <<<<"common", <<"/", "shared-secrets", "/", "api">>>>,
              <<"common", <<"/", "shared-secrets", "/", "db">>>>,
              <<"common", <<"/", "shared-secrets", "/", "nested", "/", "api">>>>,
              <<"prod", <<"/", "shared-secrets", "/", "db">>>>>>
    /\ \E p, q \in DOMAIN calls :
          /\ p < q
          /\ calls[p].op = "create_folder" /\ calls[p].name = "nested" /\ calls[p].ok
          /\ calls[q].op = "list_secrets" /\ Canon(calls[q].path) = <<"shared-secrets", "nested", "api">>

\* ------------------------------------------- claims about the token

\* The login requests of the client of the run that succeeded
Logins == {i \in DOMAIN calls : calls[i].op = "login" /\ calls[i].ok}

WritesOf(k) == {i \in WriteIdx : calls[i].name = k}

\* C29: a reconcile call issues at most one write, create or update, for
\* each desired key, whether it failed or not, and none for any other key;
\* with a non-empty desired mapping it lists the remote secrets exactly
\* once, before any write, and with an empty one it issues no request.
C29_NoRetry ==
    IsReconcile =>
       /\ \A k \in DesiredKeys(RecFile) : Cardinality(WritesOf(k)) <= 1
       /\ \A i \in WriteIdx : calls[i].name \in DesiredKeys(RecFile)
       /\ DesiredKeys(RecFile) # {} =>
             /\ Cardinality({i \in DOMAIN calls : calls[i].op = "list_secrets"}) = 1
             /\ calls[1].op = "list_secrets"
             /\ \A i \in DOMAIN calls \ {1} : i \in WriteIdx
       /\ DesiredKeys(RecFile) = {} => calls = <<>>

\* Two desired keys: the write of the first failed, the second was
\* written, and the call made three requests.
C29_Witness ==
    /\ IsReconcile /\ ~last.raised /\ ~last.dry_run
    /\ Cardinality(DesiredKeys(RecFile)) = 2
    /\ Len(calls) = 3
    /\ ~calls[2].ok /\ calls[3].ok
    /\ calls[2].name # calls[3].name
    /\ last.ret.failed = 1

\* =====================================================================
\* Concurrent runs of ensure_secret_import
\* =====================================================================

MaxClients == 2   \* clients that link at the same time
Clients == 1..MaxClients

\* Every client is about to call ensure_secret_import(prod, /s, source, /s)
\* and stands before its first request; pc is the request a client issues
\* next, listed and created are the places of its requests in the log
RaceEdge(import_env) == <<ImpEnv, <<"/", "s">>, import_env, <<"/", "s">>>>
Waiting(import_env) ==
    [pc |-> "list", args |-> RaceEdge(import_env), ret |-> FALSE, listed |-> 0, created |-> 0]

InitRace ==
    /\ renvs = {"common", "prod", "staging"}
    /\ rfolders = BystanderFolders
    /\ rsecrets = Bystanders
    /\ rimports \in {EmptyBag, SetToBag({<<"prod", <<"s">>, "common", <<"/", "s">>>>})}
    /\ calls = <<>>
    /\ \E sources \in [Clients -> ImpSources] :
          last = [op |-> "race", pre |-> rimports,
                  clients |-> [p \in Clients |-> Waiting(sources[p])]]

\* line 386: l is the outcome of the client's list_secret_imports; lines
\* 388-391: the client returns False when the edge is listed
RaceListed(p, l) ==
    /\ calls' = calls \o l.st.log
    /\ last' = [last EXCEPT
                  !.clients[p].listed = Len(calls) + 1,
                  !.clients[p].pc =
                      IF ~l.ok THEN "raised"
                      ELSE IF has_import(l.val, last.clients[p].args[3],
                                         last.clients[p].args[4])
                      THEN "done" ELSE "create"]
    /\ UNCHANGED <<renvs, rfolders, rsecrets, rimports>>

ListSecretImports ==
    \E p \in Clients :
       /\ last.clients[p].pc = "list"
       /\ \E F \in {{}, {1}} :
             RaceListed(p, list_secret_imports(Store(F), last.clients[p].args[1],
                                               last.clients[p].args[2]))

\* lines 393-394: c is the outcome of the client's create_secret_import
RaceCreated(p, c) ==
    /\ calls' = calls \o c.st.log
    /\ rimports' = c.st.imports
    /\ last' = [last EXCEPT
                  !.clients[p].created = Len(calls) + 1,
                  !.clients[p].ret = c.ret,
                  !.clients[p].pc = IF c.raised THEN "raised" ELSE "done"]
    /\ UNCHANGED <<renvs, rfolders, rsecrets>>

CreateSecretImport ==
    \E p \in Clients :
       /\ last.clients[p].pc = "create"
       /\ \E F \in {{}, {1}} :
             RaceCreated(p, import_created(
                                create_secret_import(Store(F), last.clients[p].args[1],
                                                     last.clients[p].args[2],
                                                     last.clients[p].args[3],
                                                     last.clients[p].args[4])))

NextRace == ListSecretImports \/ CreateSecretImport

SpecRace == InitRace /\ [][NextRace]_vars

\* ------------------------------------------- claims about the race

IsRace == last.op = "race"

\* The edge a client links, as the remote keeps it
EdgeOf(p) ==
    <<last.clients[p].args[1], Canon(last.clients[p].args[2]), last.clients[p].args[3],
      last.clients[p].args[4]>>

\* The clients whose create request was accepted
Creators(e) ==
    {p \in Clients : EdgeOf(p) = e /\ last.clients[p].created # 0 /\ last.clients[p].ret}

\* The edge was on the remote when the client listed
SeenBy(p) ==
    \/ BagIn(EdgeOf(p), last.pre)
    \/ \E q \in Creators(EdgeOf(p)) : last.clients[q].created < last.clients[p].listed

\* C30: with clients that interleave at the requests, a client whose call
\* returned reports created exactly when the edge was not on the remote at
\* the moment of its own listing, and the remote holds one more copy of an
\* edge for every client that created it: two clients that list the same
\* absent edge before either creates leave it twice, and both report
\* created.
C30_ListThenCreateRace ==
    IsRace =>
       /\ \A p \in Clients :
             last.clients[p].pc = "done" => (last.clients[p].ret <=> ~SeenBy(p))
       /\ \A p \in Clients :
             CopiesIn(EdgeOf(p), rimports)
                = CopiesIn(EdgeOf(p), last.pre) + Cardinality(Creators(EdgeOf(p)))

\* Both clients listed the same absent edge before either created it:
\* both report created and the remote holds the edge twice.
C30_Witness ==
    /\ IsRace
    /\ EdgeOf(1) = EdgeOf(2)
    /\ ~BagIn(EdgeOf(1), last.pre)
    /\ \A p \in {1, 2} : last.clients[p].pc = "done" /\ last.clients[p].ret
    /\ \A p, q \in {1, 2} : last.clients[p].listed < last.clients[q].created
    /\ CopiesIn(EdgeOf(1), rimports) = 2
    /\ \A i \in DOMAIN calls : calls[i].ok

\* =====================================================================
\* Concurrent runs of ensure_folder_path
\* =====================================================================

\* Every client is about to call ensure_folder_path(common, folder_path)
\* and stands before its first listing.  i is the segment a client is at,
\* pc the request it issues next; listed[k] is the place in the log of its
\* listing for segment k and missing[k] what line 208 made of it
RacePaths == {<<"/", "a">>, <<"/", "a", "/", "b">>}
Starting(folder_path) ==
    [pc |-> "list", parts |-> split(strip(folder_path)), i |-> 1, current_path |-> <<"/">>,
     listed |-> <<>>, missing |-> <<>>]

InitFolderRace ==
    /\ renvs = {"common", "prod", "staging"}
    /\ rfolders \in {BystanderFolders,
                     BystanderFolders (+) SetToBag({<<FolderEnv, <<"a">>>>})}
    /\ rsecrets = Bystanders
    /\ rimports = EmptyBag
    /\ calls = <<>>
    /\ \E paths \in [Clients -> RacePaths] :
          last = [op |-> "folder race", pre |-> rfolders,
                  clients |-> [p \in Clients |-> Starting(paths[p])]]

\* line 212, and the end of the loop of line 204
Descended(c) ==
    [c EXCEPT !.i = @ + 1,
              !.current_path = descend(@, c.parts[c.i]),
              !.pc = IF c.i + 1 > Len(c.parts) THEN "done" ELSE "list"]

\* lines 205-208: existing is the outcome of the client's list_folders
FolderListed(p, existing) ==
    /\ calls' = calls \o existing.st.log
    /\ last' = [last EXCEPT !.clients[p] =
                  IF ~existing.ok THEN [@ EXCEPT !.pc = "raised"]
                  ELSE IF is_missing(@.parts[@.i], existing.val)
                  THEN [@ EXCEPT !.pc = "create",
                                 !.listed = Append(@, Len(calls) + 1),
                                 !.missing = Append(@, TRUE)]
                  ELSE Descended([@ EXCEPT !.listed = Append(@, Len(calls) + 1),
                                           !.missing = Append(@, FALSE)])]
    /\ UNCHANGED <<renvs, rfolders, rsecrets, rimports>>

ListFolders ==
    \E p \in Clients :
       /\ last.clients[p].pc = "list"
       /\ \E F \in {{}, {1}} :
             FolderListed(p, list_folders(Store(F), FolderEnv, last.clients[p].current_path))

\* lines 209-212: c is the outcome of the client's create_folder
FolderCreated(p, c) ==
    /\ calls' = calls \o c.st.log
    /\ rfolders' = c.st.folders
    /\ last' = [last EXCEPT !.clients[p] =
                  IF ~c.ok THEN [@ EXCEPT !.pc = "raised"] ELSE Descended(@)]
    /\ UNCHANGED <<renvs, rsecrets, rimports>>

CreateFolder ==
    \E p \in Clients :
       /\ last.clients[p].pc = "create"
       /\ \E F \in {{}, {1}} :
             FolderCreated(p, create_folder(Store(F), FolderEnv,
                                            last.clients[p].parts[last.clients[p].i],
                                            last.clients[p].current_path))

NextFolderRace == ListFolders \/ CreateFolder

SpecFolderRace == InitFolderRace /\ [][NextFolderRace]_vars

\* ------------------------------------ claims about the folder race

IsFolderRace == last.op = "folder race"

\* The accepted create-folder requests for the folder, by their place in the log
CreatesOf(f) ==
    {j \in DOMAIN calls :
       /\ calls[j].op = "create_folder" /\ calls[j].ok
       /\ <<calls[j].env, Append(Canon(calls[j].path), calls[j].name)>> = f}

\* The folder of the k-th segment of a client's path
SegmentOf(p, k) == <<FolderEnv, SubSeq(last.clients[p].parts, 1, k)>>

\* C31: with clients that interleave at the requests, a client finds a
\* segment missing exactly when the folder was not on the remote at the
\* moment of its own listing, it then issues the create-folder request,
\* and the remote holds one more copy of a folder for every accepted
\* request: two clients that list the parent before either creates the
\* segment both issue a create-folder call for the same name under the
\* same parent.
C31_FolderRace ==
    IsFolderRace =>
       /\ \A p \in Clients : \A k \in DOMAIN last.clients[p].missing :
             /\ last.clients[p].missing[k] <=>
                   /\ ~BagIn(SegmentOf(p, k), last.pre)
                   /\ \A j \in CreatesOf(SegmentOf(p, k)) : j > last.clients[p].listed[k]
             /\ (last.clients[p].missing[k] /\ last.clients[p].i > k) =>
                   \E j \in CreatesOf(SegmentOf(p, k)) : j > last.clients[p].listed[k]
       /\ \A p \in Clients : \A k \in 1..Len(last.clients[p].parts) :
             CopiesIn(SegmentOf(p, k), rfolders)
                = CopiesIn(SegmentOf(p, k), last.pre)
                  + Cardinality(CreatesOf(SegmentOf(p, k)))

\* Both clients listed "/" before either created a: both issued the
\* create-folder call for a under "/" and the remote holds the folder twice.
C31_Witness ==
    /\ IsFolderRace
    /\ ~BagIn(<<FolderEnv, <<"a">>>>, last.pre)
    /\ \A p \in {1, 2} :
          /\ last.clients[p].pc = "done"
          /\ last.clients[p].missing[1]
          /\ \A j \in CreatesOf(<<FolderEnv, <<"a">>>>) : last.clients[p].listed[1] < j
    /\ Cardinality(CreatesOf(<<FolderEnv, <<"a">>>>)) = 2
    /\ \A j \in CreatesOf(<<FolderEnv, <<"a">>>>) : Canon(calls[j].path) = <<>>
    /\ CopiesIn(<<FolderEnv, <<"a">>>>, rfolders) = 2

\* =====================================================================
\* Further claims about deletion
\* =====================================================================

\* The requests of the call about the folder d, by their place in the log
OpsAt(op, d) == {i \in DOMAIN calls : calls[i].op = op /\ Canon(calls[i].path) = d}
OwnDelete(d) == {i \in DeleteFolderIdx : calls[i].ipath = d}
ChildDeletes(d) ==
    {i \in DeleteFolderIdx : Len(calls[i].ipath) = Len(d) + 1 /\ Under(d, calls[i].ipath)}

\* The folders the call came to: each visit begins by listing the import edges
Visited == {Canon(calls[i].path) : i \in {j \in DOMAIN calls : calls[j].op = "list_secret_imports"}}

\* The listing of step 3 is the first listing of the children of d
ChildrenListed(d) ==
    /\ OpsAt("list_folders", d) # {}
    /\ calls[Min(OpsAt("list_folders", d))].ok

ChildrenBefore(d) ==
    {f[2] : f \in {g \in BagToSet(last.pre.folders) :
                      g[1] = last.args[1] /\ Len(g[2]) = Len(d) + 1 /\ Under(d, g[2])}}

\* The four phases of a folder come in their order
PhasesOrdered(d) ==
    /\ \A i \in OpsAt("delete_secret_import", d) : \A j \in OpsAt("delete_secret", d) : i < j
    /\ \A i \in OpsAt("delete_secret", d) : \A j \in ChildDeletes(d) : i < j
    /\ \A i \in OpsAt("delete_secret_import", d) : \A j \in ChildDeletes(d) : i < j
    /\ \A i \in ChildDeletes(d) \cup OpsAt("delete_secret", d)
                \cup OpsAt("delete_secret_import", d) :
          \A j \in OwnDelete(d) : i < j

\* A delete is attempted for every import edge and every secret listed
ContentAttempted(d) ==
    /\ (\E i \in OpsAt("list_secret_imports", d) : calls[i].ok) =>
          \A e \in BagToSet(last.pre.imports) :
             (e[1] = last.args[1] /\ e[2] = d) =>
                \E j \in OpsAt("delete_secret_import", d) :
                   calls[j].name = e[3] /\ calls[j].ipath = e[4]
    /\ (\E i \in OpsAt("list_secrets", d) : calls[i].ok) =>
          \A t \in DOMAIN last.pre.secrets :
             (t[1] = last.args[1] /\ t[2] = d) =>
                \E j \in OpsAt("delete_secret", d) : calls[j].name = t[3]

\* C32: for every folder the call comes to, the deletes of its import
\* edges precede the deletes of its secrets, which precede the deletes of
\* its child folders, which precede its own delete; and a delete is
\* attempted for every import edge, every secret and every child folder
\* that was listed, whatever failed before.
C32_PhasesBestEffort ==
    IsDelete =>
       \A d \in Visited :
          /\ PhasesOrdered(d)
          /\ ContentAttempted(d)
          /\ ChildrenListed(d) => ChildrenBefore(d) \subseteq Visited

\* What the code does keep: the order of the phases, and the attempts for
\* the import edges and the secrets.
C32_PhasesOrdered ==
    IsDelete => \A d \in Visited : PhasesOrdered(d) /\ ContentAttempted(d)

\* Both children of /a were listed; the delete of the first one failed,
\* the other was never come to, and /a itself was deleted.
C32_Witness ==
    /\ IsDelete /\ DelTarget = <<"a">> /\ last.ret
    /\ ChildrenListed(<<"a">>)
    /\ Cardinality(ChildrenBefore(<<"a">>)) = 2
    /\ Cardinality(ChildrenBefore(<<"a">>) \cap Visited) = 1
    /\ \E i \in ChildDeletes(<<"a">>) : ~calls[i].ok
    /\ \E i \in OwnDelete(<<"a">>) : calls[i].ok

\* =====================================================================
\* Further claims about the stages of the full sync
\* =====================================================================

EnvOps == {"create_environment", "delete_environment"}
ImportOps == {"list_secret_imports", "create_secret_import"}
TreeOps == {"list_folders", "create_folder", "list_secrets", "create_secret",
            "update_secret", "delete_secret"}

\* The requests of a run by the stage that issues them. The environments
\* are listed by a get_project request, the first of which is the one of
\* the connection test. A request about the root folder is told by the
\* name it creates.
TopOf(i) ==
    IF Canon(calls[i].path) # <<>> THEN Canon(calls[i].path)[1]
    ELSE IF calls[i].op = "create_folder" THEN calls[i].name ELSE ""
StageEnvs ==
    {i \in DOMAIN calls :
        \/ calls[i].op \in EnvOps
        \/ calls[i].op = "get_project" /\ \E j \in 1..(i - 1) : calls[j].op = "get_project"}
StageTree(top) == {i \in DOMAIN calls : calls[i].op \in TreeOps /\ TopOf(i) = top}
StageImports == {i \in DOMAIN calls : calls[i].op \in ImportOps}
RootListings == {i \in DOMAIN calls : calls[i].op \in TreeOps /\ TopOf(i) = ""}

AllBefore(S, T) == \A i \in S : \A j \in T : i < j

StagesInOrder ==
    /\ AllBefore(StageEnvs, StageTree("shared-secrets") \cup RootListings)
    /\ AllBefore(StageTree("shared-secrets"), StageTree("services"))
    /\ AllBefore(StageTree("services") \cup RootListings, StageImports)

\* The remote as request i found it
EnvsWhen(i) ==
    (last.pre.envs
       \cup {calls[j].env : j \in {k \in 1..(i - 1) :
                                      calls[k].op = "create_environment" /\ calls[k].ok}})
    \ {calls[j].env : j \in {k \in 1..(i - 1) :
                                calls[k].op = "delete_environment" /\ calls[k].ok}}

CreatedBefore(i, e, f) ==
    \E j \in 1..(i - 1) :
       /\ calls[j].op = "create_folder" /\ calls[j].ok /\ calls[j].env = e
       /\ Append(Canon(calls[j].path), calls[j].name) = f

\* The services stage of the run looked the segment k of p up under its
\* parent before request i, and found it or created it
SegmentEnsured(i, e, p, k) ==
    \E j \in 1..(i - 1) :
       /\ calls[j].op = "list_folders" /\ calls[j].ok /\ calls[j].env = e
       /\ Canon(calls[j].path) = SubSeq(p, 1, k - 1)
       /\ AllBefore(StageTree("shared-secrets"), {j})
       /\ \/ <<e, SubSeq(p, 1, k)>> \in BagToSet(last.pre.folders)
          \/ CreatedBefore(j, e, SubSeq(p, 1, k))
          \/ /\ calls[j + 1].op = "create_folder" /\ calls[j + 1].ok
             /\ calls[j + 1].env = e
             /\ Append(Canon(calls[j + 1].path), calls[j + 1].name) = SubSeq(p, 1, k)

FolderEnsured(i, e, p) == \A k \in 1..Len(p) : SegmentEnsured(i, e, p, k)

EdgesCreated == {i \in DOMAIN calls : calls[i].op = "create_secret_import" /\ calls[i].ok}

\* C33: a full sync issues the requests of its stages in the order
\* environments, shared secrets, services, imports; and when it creates
\* the edge (env, path) <- (common, path) both environments exist and the
\* services stage of the same run has ensured both folders.
C33_StagesInOrder ==
    IsFullSync =>
       /\ StagesInOrder
       /\ \A i \in EdgesCreated :
             /\ calls[i].name = "common"
             /\ calls[i].ipath = calls[i].path
             /\ {calls[i].env, "common"} \subseteq EnvsWhen(i)
             /\ FolderEnsured(i, calls[i].env, Canon(calls[i].path))
             /\ FolderEnsured(i, "common", Canon(calls[i].path))

\* A full sync of a new project that created the environments, the
\* folders of a service and then its edge
C33_Witness ==
    /\ IsApplySync /\ last.status = "done"
    /\ "common" \notin last.pre.envs
    /\ EdgesCreated # {}
    /\ Cardinality(StageEnvs) > 1
    /\ StageTree("shared-secrets") # {}
    /\ \E i \in StageTree("services") : calls[i].op = "create_folder" /\ calls[i].ok

\* =====================================================================
\* Runs of the import stage
\* =====================================================================

\* A service with all three files, a service below it with the common
\* file only and a service with no common file
Tree5 ==
    (<<"services", "bi", "common.env">> :> <<KvLine("B", "1")>>)
    @@ (<<"services", "bi", "prod.env">> :> <<KvLine("B", "2")>>)
    @@ (<<"services", "bi", "staging.env">> :> <<KvLine("B", "1")>>)
    @@ (<<"services", "bi", "backend", "common.env">> :> <<KvLine("C", "1")>>)
    @@ (<<"services", "backend", "prod.env">> :> <<KvLine("A", "1")>>)
LinkTrees == {Tree1, Tree2, Tree4, Tree5}

\* A project whose service bi is linked already, and imports from staging too
LinkedRemote ==
    [UsedRemote EXCEPT
        !.imports = SetToBag({<<"prod", <<"services", "bi">>, "common",
                                <<"/", "services", "/", "bi">>>>,
                              <<"prod", <<"services", "bi">>, "staging",
                                <<"/", "services", "/", "bi">>>>})]

InitLink ==
    /\ \E r \in {UsedRemote, LinkedRemote} :
          /\ renvs = r.envs
          /\ rfolders = r.folders
          /\ rsecrets = r.secrets
          /\ rimports = r.imports
    /\ calls = <<>>
    /\ last = NoOp

\* No request, one request or two requests of a run fail, among the n it
\* would issue
LinkFailures(n) == {{}} \cup {{a, b} : a \in 1..n, b \in 1..n}

Staged(tree, dry_run, services, s4, from) ==
    /\ Install(s4.st)
    /\ last' = [op |-> "step4", args |-> <<tree>>, dry_run |-> dry_run, pre |-> Remote,
                services |-> services, raised |-> s4.raised, imports |-> s4.imports,
                from |-> from]

\* --step=4: the services are scanned from the local tree (lines 696-697, 1183)
Step4SetupServiceImports ==
    /\ last.op = "none"
    /\ \E tree \in LinkTrees, dry_run \in BOOLEAN :
         \E F \in LinkFailures(Len(step4_setup_service_imports(
                                       Store({}), scan_services_for_imports(tree),
                                       dry_run).st.log)) :
            Staged(tree, dry_run, scan_services_for_imports(tree),
                   step4_setup_service_imports(Store(F), scan_services_for_imports(tree),
                                               dry_run),
                   0)

\* lines 1187-1188: the stage works on the services step 3 has processed
Step3Linked(tree, dry_run, s3) ==
    /\ ~s3.raised
    /\ Staged(tree, dry_run, s3.processed,
              step4_setup_service_imports(s3.st, s3.processed, dry_run), Len(s3.st.log))

Step3ThenStep4 ==
    /\ last.op = "none"
    /\ \E tree \in LinkTrees, dry_run \in BOOLEAN :
         \E F \in LinkFailures(Len(full_sync_step3(
                                       step3_import_services(Store({}), tree, dry_run),
                                       NoWalk, dry_run).st.log)) :
            Step3Linked(tree, dry_run, step3_import_services(Store(F), tree, dry_run))

NextLink == Step4SetupServiceImports \/ Step3ThenStep4

SpecLink == InitLink /\ [][NextLink]_vars

\* ------------------------------------------- claims about the import stage

IsStage4 == last.op = "step4"

\* The requests of the import stage
LinkCalls == {i \in DOMAIN calls : i > last.from}

\* The (environment, service path) pairs the stage examines
Examined(tree) ==
    {<<"prod", scan_services_for_imports(tree)[i].path>> :
        i \in {j \in DOMAIN scan_services_for_imports(tree) :
                  /\ scan_services_for_imports(tree)[j].has_common
                  /\ scan_services_for_imports(tree)[j].has_prod}}
    \cup
    {<<"staging", scan_services_for_imports(tree)[i].path>> :
        i \in {j \in DOMAIN scan_services_for_imports(tree) :
                  /\ scan_services_for_imports(tree)[j].has_common
                  /\ scan_services_for_imports(tree)[j].has_staging}}

EdgeTo(pr) == <<pr[1], Canon(pr[2]), "common", pr[2]>>
Copies(bag, x) == IF x \in DOMAIN bag THEN bag[x] ELSE 0

\* C34: when the import stage has completed in apply mode and no request
\* of it failed, the remote holds exactly one edge (env, path) <- (common,
\* path) for every service path with a common file and a file of env, for
\* env = prod and env = staging; the stage asked for no other edge and the
\* remote gained no other edge; and created + unchanged is the number of
\* (service, environment) pairs examined.
C34_OneEdgePerPair ==
    (IsStage4 /\ ~last.dry_run /\ ~last.raised /\ \A i \in LinkCalls : calls[i].ok) =>
       /\ \A pr \in Examined(last.args[1]) : Copies(rimports, EdgeTo(pr)) = 1
       /\ \A i \in LinkCalls :
             /\ calls[i].op \in ImportOps
             /\ <<calls[i].env, calls[i].path>> \in Examined(last.args[1])
             /\ calls[i].op = "create_secret_import" =>
                   calls[i].name = "common" /\ calls[i].ipath = calls[i].path
       /\ \A x \in DOMAIN rimports :
             \/ Copies(last.pre.imports, x) = rimports[x]
             \/ \E pr \in Examined(last.args[1]) : x = EdgeTo(pr)
       /\ \A x \in DOMAIN last.pre.imports : x \in DOMAIN rimports
       /\ last.imports.created + last.imports.unchanged
             = Cardinality(Examined(last.args[1]))
       /\ last.imports.created
             = Cardinality({pr \in Examined(last.args[1]) :
                               Copies(last.pre.imports, EdgeTo(pr)) = 0})

\* The service bi has all three files and its prod edge was there; the
\* services backend and bi/backend have no pair to link.
C34_Witness ==
    /\ IsStage4 /\ ~last.dry_run /\ ~last.raised /\ \A i \in LinkCalls : calls[i].ok
    /\ last.args[1] = Tree5
    /\ last.from > 0
    /\ last.imports = [created |-> 1, unchanged |-> 1]
    /\ Len(last.services) = 3
    /\ Copies(rimports, EdgeTo(<<"staging", <<"/", "services", "/", "bi">>>>)) = 1

\* =====================================================================
\* The purge and the sync that follows it (--purge)
\* =====================================================================

RECURSIVE purge_loop(_, _, _)

\* lines 1047-1050: r is the outcome of delete_folder_recursive; what it
\* raised is printed and the loop goes on
RECURSIVE purge_folders_loop(_, _, _, _, _)
purge_folder_deleted(r, names, k, i, dry_run) ==
    IF r.raised THEN purge_folders_loop(r.st, names, k + 1, i, dry_run)
    ELSE purge_folders_loop(r.st, names, k + 1, i, dry_run)

\* lines 1043-1050: the loop over the folders of the root of environments[i]
purge_folders_loop(st, names, k, i, dry_run) ==
    IF k > Len(names) THEN purge_loop(st, i + 1, dry_run)
    ELSE purge_folder_deleted(
             delete_folder_recursive(st, environments[i], <<"/">> \o Tokens(names[k])),
             names, k, i, dry_run)

\* lines 1041-1052: l is the outcome of list_folders on the root
purge_folders_listed(l, i, dry_run) ==
    IF ~l.ok \/ dry_run THEN purge_loop(l.st, i + 1, dry_run)
    ELSE purge_folders_loop(l.st, InOrder(l.val), 1, i, dry_run)

\* lines 1034-1038: d is the outcome of delete_all_secret_imports; what it
\* raised is passed over
purge_imports_deleted(d, i, dry_run) ==
    IF d.raised THEN purge_folders_listed(list_folders(d.st, environments[i], <<"/">>),
                                          i, dry_run)
    ELSE purge_folders_listed(list_folders(d.st, environments[i], <<"/">>), i, dry_run)

\* lines 1020-1031: l is the outcome of list_secrets on the root; a failure
\* of the listing or of one delete is passed over. With --dry-run nothing
\* is deleted and the import edges are not even listed (line 1035).
purge_secrets_listed(l, i, dry_run) ==
    IF dry_run THEN purge_folders_listed(list_folders(l.st, environments[i], <<"/">>),
                                         i, dry_run)
    ELSE IF ~l.ok
    THEN purge_imports_deleted(delete_all_secret_imports(l.st, environments[i], <<"/">>),
                               i, dry_run)
    ELSE purge_imports_deleted(
             delete_all_secret_imports(
                 drop_secrets_loop(l.st, environments[i], <<"/">>, InOrder(DOMAIN l.val), 1),
                 environments[i], <<"/">>),
             i, dry_run)

\* lines 1016-1052: the loop over the three environments
purge_loop(st, i, dry_run) ==
    IF i > Len(environments) THEN [st |-> st, raised |-> FALSE]
    ELSE purge_secrets_listed(list_secrets(st, environments[i], <<"/">>), i, dry_run)

purge_all_data(st, dry_run) == purge_loop(st, 1, dry_run)

\* Mutant: the sync runs first and the purge after it.
purge_after_resync(p, st, tree, dry_run) ==
    IF dry_run THEN Report(p.st, "done", NoWalk, NoWalk, ZeroImports)
    ELSE [full_sync(st, tree, dry_run) EXCEPT
             !.st = purge_all_data(full_sync(st, tree, dry_run).st, dry_run).st]

\* lines 1169-1174: p is the outcome of purge_all_data, which raises
\* nothing; the four steps run after it unless --dry-run
purge_then_resync(p, st, tree, dry_run) ==
    IF p.raised \/ dry_run THEN Report(p.st, Status(p.raised), NoWalk, NoWalk, ZeroImports)
    ELSE full_sync(p.st, tree, dry_run)

\* lines 1116-1121 and 1167-1174: project is the outcome of get_project
main_purge_project(project, tree, dry_run) ==
    IF ~project.ok THEN Report(project.st, "exit", NoWalk, NoWalk, ZeroImports)
    ELSE purge_then_resync(purge_all_data(project.st, dry_run), project.st, tree, dry_run)

\* main with --purge
main_purge(st, tree, dry_run) == main_purge_project(get_project(st), tree, dry_run)

\* ------------------------------------------------------ runs of the purge

\* A project with secrets and import edges at the root of its
\* environments and folders below
FullRemote ==
    [DelRemote EXCEPT
        !.secrets = @ @@ (<<"common", <<>>, "A">> :> "1") @@ (<<"common", <<>>, "B">> :> "2")
                      @@ (<<"staging", <<>>, "C">> :> "1"),
        !.imports = @ (+) SetToBag({<<"prod", <<>>, "common", <<"/">>>>,
                                    <<"staging", <<>>, "common", <<"/">>>>})]

InitPurge ==
    /\ \E r \in {UsedRemote, FullRemote} :
          /\ renvs = r.envs
          /\ rfolders = r.folders
          /\ rsecrets = r.secrets
          /\ rimports = r.imports
    /\ calls = <<>>
    /\ last = NoOp

\* The remote as the purge of the run leaves it
AfterPurge(project, dry_run) ==
    IF ~project.ok THEN project.st ELSE purge_all_data(project.st, dry_run).st

Purged(tree, dry_run, F, cascade, r, p) ==
    /\ Install(r.st)
    /\ last' = [op |-> "main --purge", args |-> <<tree>>, dry_run |-> dry_run, F |-> F,
                cascade |-> cascade, pre |-> Remote, status |-> r.status,
                purged |-> [folders |-> p.folders, secrets |-> p.secrets,
                            imports |-> p.imports]]

\* At most one request of the run fails, among those it would issue
Purge ==
    /\ last.op = "none"
    /\ \E dry_run, cascade \in BOOLEAN :
         \E F \in {{}} \cup {{n} : n \in 1..Len(main_purge(PreciseStore({}, cascade), Tree1,
                                                           dry_run).st.log)} :
            Purged(Tree1, dry_run, F, cascade,
                   main_purge(PreciseStore(F, cascade), Tree1, dry_run),
                   AfterPurge(get_project(PreciseStore(F, cascade)), dry_run))

NextPurge == Purge

SpecPurge == InitPurge /\ [][NextPurge]_vars

\* ------------------------------------------------ claims about the purge

IsPurge == last.op = "main --purge"

DeleteOps == {"delete_secret", "delete_secret_import", "delete_folder"}
ResyncWriteOps == {"create_environment", "create_folder", "create_secret", "update_secret",
             "create_secret_import"}
Deletions == {i \in DOMAIN calls : calls[i].op \in DeleteOps}
Writes == {i \in DOMAIN calls : calls[i].op \in ResyncWriteOps}

\* The requests of one kind about a folder of an environment
OpsIn(op, e, d) ==
    {i \in DOMAIN calls : calls[i].op = op /\ calls[i].env = e /\ Canon(calls[i].path) = d}
FirstOk(S) == S # {} /\ calls[Min(S)].ok

\* The purge attempts a delete for everything it listed at the root of e
RootCovered(e) ==
    /\ FirstOk(OpsIn("list_secrets", e, <<>>)) =>
          \A t \in DOMAIN last.pre.secrets :
             (t[1] = e /\ t[2] = <<>>) =>
                \E j \in OpsIn("delete_secret", e, <<>>) : calls[j].name = t[3]
    /\ FirstOk(OpsIn("list_secret_imports", e, <<>>)) =>
          \A x \in BagToSet(last.pre.imports) :
             (x[1] = e /\ x[2] = <<>>) =>
                \E j \in OpsIn("delete_secret_import", e, <<>>) :
                   calls[j].name = x[3] /\ calls[j].ipath = x[4]
    /\ FirstOk(OpsIn("list_folders", e, <<>>)) =>
          \A f \in BagToSet(last.pre.folders) :
             (f[1] = e /\ Len(f[2]) = 1) => OpsIn("list_secret_imports", e, f[2]) # {}

\* Nothing of the three environments is left
Emptied(r) ==
    /\ \A f \in BagToSet(r.folders) : f[1] \notin ThreeEnvs
    /\ \A t \in DOMAIN r.secrets : t[1] \notin ThreeEnvs
    /\ \A x \in BagToSet(r.imports) : x[1] \notin ThreeEnvs

\* C35: in a run with --purge every delete request precedes the first
\* write of the sync that follows; for each of the three environments the
\* purge lists the root and attempts a delete for every root secret, every
\* root import edge and every top-level folder it listed, and when no
\* request failed it leaves the three environments empty; with --dry-run
\* the run issues no delete request and no request of the sync at all.
C35_PurgeBeforeResync ==
    IsPurge =>
       /\ AllBefore(Deletions, Writes)
       /\ ~last.dry_run /\ last.status # "exit" =>
             /\ \A e \in ThreeEnvs :
                   /\ OpsIn("list_secrets", e, <<>>) # {}
                   /\ OpsIn("list_secret_imports", e, <<>>) # {}
                   /\ OpsIn("list_folders", e, <<>>) # {}
                   /\ RootCovered(e)
             /\ (\A i \in DOMAIN calls : calls[i].ok) => Emptied(last.purged)
       /\ last.dry_run =>
             /\ {calls[i].op : i \in DOMAIN calls}
                   \subseteq {"login", "get_project", "list_secrets", "list_folders"}
             /\ Cardinality({i \in DOMAIN calls : calls[i].op = "get_project"}) <= 1
             /\ Remote = last.pre

\* A purge that emptied a project with root secrets, root edges and
\* folders, followed by the sync that created the folders and the secrets
C35_Witness ==
    /\ IsPurge /\ ~last.dry_run /\ last.status = "done"
    /\ \A i \in DOMAIN calls : calls[i].ok
    /\ <<"common", <<>>, "A">> \in DOMAIN last.pre.secrets
    /\ <<"prod", <<>>, "common", <<"/">>>> \in DOMAIN last.pre.imports
    /\ Emptied(last.purged)
    /\ Cardinality(Deletions) > 10
    /\ \E i \in Writes : calls[i].op = "create_secret_import"

\* The preview of the purge of the same project
C35_WitnessPreview ==
    /\ IsPurge /\ last.dry_run /\ last.status = "done"
    /\ <<"common", <<>>, "A">> \in DOMAIN last.pre.secrets
    /\ Cardinality({i \in DOMAIN calls : calls[i].op = "list_folders"}) = 3

\* =====================================================================
\* Further claims about the path mapper
\* =====================================================================

\* The entry pairs the file with the pair map_file_to_infisical gives it
EntryAgrees(entry) ==
    /\ ~Mapped(entry[1]).raised
    /\ Mapped(entry[1]).ret = <<entry[2], entry[3]>>

\* The files the walkers of step 2 and step 3 reconcile: the *.env files
\* beneath the directory of an environment, and the common, prod and
\* staging files of the directories beneath services that no hidden
\* directory leads to
WalkedFiles(tree) ==
    {f \in DOMAIN tree :
        \/ /\ Len(f) >= 3 /\ f[1] = "shared-secrets"
           /\ f[2] \in {EnvDirs[i] : i \in DOMAIN EnvDirs}
           /\ is_env_file(f[Len(f)])
        \/ /\ Len(f) >= 3 /\ f[1] = "services"
           /\ f[Len(f)] \in {ServiceFile[e] : e \in DOMAIN ServiceFile}
           /\ \A k \in 3..(Len(f) - 1) : ~is_hidden(f[k])}

WalkerVisits(tree) ==
    step2_import_shared_secrets(Store({}), tree, TRUE).visited
       \o step3_import_services(Store({}), tree, TRUE).visited

\* The walkers reconcile each file at the pair map_file_to_infisical gives it
WalkerAgrees(tree) ==
    /\ Len(WalkerVisits(tree)) = Cardinality(WalkedFiles(tree))
    /\ {<<WalkerVisits(tree)[i].env, WalkerVisits(tree)[i].path>> :
           i \in DOMAIN WalkerVisits(tree)}
          = {Mapped(f).ret : f \in WalkedFiles(tree)}

\* C36: every entry (file, environment, path) of find_env_files_for_path,
\* with or without recursion, is the file with the (environment, path)
\* that map_file_to_infisical returns for it; and the walkers of the tree
\* reconcile every file they visit at the (environment, path) that
\* map_file_to_infisical returns for it.
C36_DirectionsAgree ==
    IsFind =>
       /\ \A i \in DOMAIN last.ret : EntryAgrees(last.ret[i])
       /\ WalkerAgrees(last.args[1])

\* What holds: the walkers and the entries found with recursion agree
\* with map_file_to_infisical; an entry found without recursion has the
\* environment the file maps to, and its path is the requested one.
C36_RecursiveAgrees ==
    IsFind =>
       /\ WalkerAgrees(last.args[1])
       /\ last.args[3] => \A i \in DOMAIN last.ret : EntryAgrees(last.ret[i])
       /\ ~last.args[3] =>
             \A i \in DOMAIN last.ret :
                /\ Mapped(last.ret[i][1]).ret[1] = last.ret[i][2]
                /\ last.ret[i][3] = last.args[2]

\* The path of the shared namespace itself, looked up without recursion,
\* finds the file .env, which maps into a folder of its own
C36_Witness ==
    /\ IsFind /\ ~last.args[3]
    /\ last.args[2] = <<"/", "shared-secrets">>
    /\ last.ret = <<<<<<"shared-secrets", "common", ".env">>, "common",
                      <<"/", "shared-secrets">>>>>>
    /\ Mapped(last.ret[1][1]).ret = <<"common", <<"/", "shared-secrets", "/", ".env">>>>

\* A path written with a slash at its end finds the file of the service
\* and pairs it with the path as written
C36_WitnessSlash ==
    /\ IsFind /\ ~last.args[3]
    /\ last.args[2] = <<"/", "services", "/", "bi", "/">>
    /\ Len(last.ret) = 1
    /\ last.ret[1][3] = <<"/", "services", "/", "bi", "/">>
    /\ Mapped(last.ret[1][1]).ret[2] = <<"/", "services", "/", "bi">>

\* The entries the same lookup returns with recursion
WithRecursion ==
    {find_env_files_for_path(last.args[1], last.args[2], TRUE)[i] :
        i \in DOMAIN find_env_files_for_path(last.args[1], last.args[2], TRUE)}

\* C37: every entry (file, environment, path) that a lookup without
\* recursion returns for a path, of services or of shared-secrets, is
\* returned by the lookup of the same path with recursion.
C37_RecursiveCovers ==
    (IsFind /\ ~last.args[3]) => \A i \in DOMAIN last.ret : last.ret[i] \in WithRecursion

\* What holds: the lookup with recursion covers the other for a path of
\* services written as "/" followed by its parts.
C37_RecursiveCoversServices ==
    (IsFind /\ ~last.args[3] /\ Requested # <<>> /\ Requested[1] = "services"
       /\ last.args[2] = Slashed(Requested)) =>
       \A i \in DOMAIN last.ret : last.ret[i] \in WithRecursion

\* The file db.env of three environments is found for /shared-secrets/db
\* without recursion, and nothing is found with recursion
C37_Witness ==
    /\ IsFind /\ ~last.args[3]
    /\ last.args[2] = <<"/", "shared-secrets", "/", "db">>
    /\ Len(last.ret) = 3
    /\ WithRecursion = {}

\* A service found both ways
C37_WitnessServices ==
    /\ IsFind /\ ~last.args[3]
    /\ last.args[2] = <<"/", "services", "/", "bi">>
    /\ Len(last.ret) = 2
    /\ Cardinality(WithRecursion) = 3

\* ------------------------------------------- the recursion of the deletion

\* The folders of the environment of the call, before it
FoldersBefore == {f[2] : f \in {g \in BagToSet(last.pre.folders) : g[1] = last.args[1]}}

\* The requests a visit can issue: three listings, the listing of the
\* parent, the delete of the folder, and one delete for each import edge
\* and each secret of the folder
RequestBound ==
    5 * Cardinality(Visited)
    + Cardinality({x \in BagToSet(last.pre.imports) :
                      x[1] = last.args[1] /\ x[2] \in Visited})
    + Cardinality({t \in DOMAIN last.pre.secrets :
                      t[1] = last.args[1] /\ t[2] \in Visited})

\* C38: a call of delete_folder_recursive ends, returning or raising,
\* whatever requests fail: it comes to the target and, beyond it, only to
\* folders of the remote that a listing of their parent, itself visited,
\* returned, so no deeper than the tree; it comes to each folder at most
\* once, and issues no more requests than the visits account for.
C38_RecursionBounded ==
    IsDelete =>
       /\ \A d \in Visited :
             /\ Cardinality(OpsAt("list_secret_imports", d)) = 1
             /\ d # DelTarget =>
                   /\ d \in FoldersBefore
                   /\ Under(DelTarget, d)
                   /\ SubSeq(d, 1, Len(d) - 1) \in Visited
                   /\ \E j \in OpsAt("list_folders", SubSeq(d, 1, Len(d) - 1)) :
                         calls[j].ok /\ j < Min(OpsAt("list_secret_imports", d))
             /\ Len(d) <= Max({Len(f) : f \in FoldersBefore \cup {DelTarget}})
       /\ Visited # {} => DelTarget \in Visited
       /\ Len(calls) <= RequestBound

\* The call came to /a and to both its children while two requests failed
C38_Witness ==
    /\ IsDelete /\ DelTarget = <<"a">>
    /\ Visited = {<<"a">>, <<"a", "b">>, <<"a", "c">>}
    /\ Cardinality(FailedIdx) = 2
    /\ ~last.raised

\* =====================================================================
\* What a deletion leaves alone
\* =====================================================================

\* A project with deprecated folders next to folders of a like name, the
\* same paths in several environments, and content above and beside them
FrameRemote ==
    [envs |-> {"common", "prod", "staging", "dev"},
     folders |-> SetToBag({<<"common", <<"services">>>>,
                           <<"common", <<"services", "bi">>>>,
                           <<"common", <<"services", "bi-backend">>>>,
                           <<"common", <<"services", "bi-backend", "old">>>>,
                           <<"prod", <<"services">>>>,
                           <<"prod", <<"services", "bi">>>>,
                           <<"prod", <<"services", "bi-mcp">>>>,
                           <<"dev", <<"services">>>>,
                           <<"dev", <<"services", "bi-backend">>>>}),
     secrets |-> (<<"common", <<"services", "bi-backend">>, "A">> :> "1")
                 @@ (<<"common", <<"services", "bi-backend", "old">>, "B">> :> "1")
                 @@ (<<"common", <<"services", "bi">>, "B">> :> "2")
                 @@ (<<"common", <<"services">>, "C">> :> "1")
                 @@ (<<"common", <<>>, "A">> :> "2")
                 @@ (<<"prod", <<"services", "bi-mcp">>, "A">> :> "1")
                 @@ (<<"prod", <<"services", "bi">>, "A">> :> "1")
                 @@ (<<"dev", <<"services", "bi-backend">>, "A">> :> "1"),
     imports |-> SetToBag({<<"prod", <<"services", "bi-mcp">>, "common",
                             <<"/", "services", "/", "bi-mcp">>>>,
                           <<"prod", <<"services", "bi">>, "common",
                             <<"/", "services", "/", "bi">>>>,
                           <<"common", <<"services", "bi-backend">>, "prod",
                             <<"/", "services", "/", "bi">>>>})]

InitFrame ==
    /\ renvs = FrameRemote.envs
    /\ rfolders = FrameRemote.folders
    /\ rsecrets = FrameRemote.secrets
    /\ rimports = FrameRemote.imports
    /\ calls = <<>>
    /\ last = NoOp

FrameEnvs == {"common", "prod"}
FramePaths ==
    {<<"/", "services", "/", "bi-backend">>, <<"/", "services", "/", "bi-backend", "/">>,
     <<"/", "services", "/", "bi">>, <<"/", "services">>,
     <<"/", "services", "/", "bi-backend", "/", "old">>, <<"/", "services", "/", "none">>,
     <<"/">>, <<>>, <<"/", "/">>}

\* delete_folder_recursive on a folder, with at most one failing request
FrameDelete ==
    /\ last.op = "none"
    /\ \E environment \in FrameEnvs, folder_path \in FramePaths, cascade \in BOOLEAN :
         \E F \in {{}} \cup {{n} : n \in 1..Len(delete_folder_recursive(
                                                 DelStore({}, cascade), environment,
                                                 folder_path).st.log)} :
            Deleted(environment, folder_path, F, cascade,
                    delete_folder_recursive(DelStore(F, cascade), environment, folder_path))

\* cleanup_deprecated_paths, with at most one failing request
FrameCleanup ==
    /\ last.op = "none"
    /\ \E dry_run, cascade \in BOOLEAN :
         \E F \in {{}} \cup {{n} : n \in 1..Len(cleanup_deprecated_paths(
                                                 DelStore({}, cascade), dry_run).st.log)} :
            CleanedUp(dry_run, F, cascade,
                      cleanup_done(cleanup_deprecated_paths(DelStore(F, cascade), dry_run)))

NextFrame == FrameDelete \/ FrameCleanup

SpecFrame == InitFrame /\ [][NextFrame]_vars

\* ------------------------------------------------- claims about the frame

\* The folders the operation is to delete
FrameTargets ==
    IF IsDelete THEN {<<last.args[1], DelTarget>>}
    ELSE IF IsCleanup /\ ~last.dry_run
    THEN {<<environments[i], Canon(deprecated_paths[j])>> :
             i \in DOMAIN environments, j \in DOMAIN deprecated_paths}
    ELSE {}

\* The place (env, path) lies at or beneath a target
Inside(env, path) == \E t \in FrameTargets : t[1] = env /\ Under(t[2], path)

\* C39: after delete_folder_recursive(env, path) and after the cleanup of
\* the deprecated paths, every folder, secret and import edge that is not
\* at or beneath a target in the environment of the target is in the
\* remote as it was, those of other environments and of folders whose
\* name begins like the name of a target included, the environments are
\* the same, and every delete request is about a place at or beneath a
\* target.
C39_NothingOutsideTarget ==
    (IsDelete \/ IsCleanup) =>
       /\ renvs = last.pre.envs
       /\ \A f \in DOMAIN last.pre.folders \cup DOMAIN rfolders :
             ~Inside(f[1], f[2]) => Copies(rfolders, f) = Copies(last.pre.folders, f)
       /\ \A x \in DOMAIN last.pre.imports \cup DOMAIN rimports :
             ~Inside(x[1], x[2]) => Copies(rimports, x) = Copies(last.pre.imports, x)
       /\ \A t \in DOMAIN last.pre.secrets \cup DOMAIN rsecrets :
             ~Inside(t[1], t[2]) =>
                /\ t \in DOMAIN last.pre.secrets /\ t \in DOMAIN rsecrets
                /\ rsecrets[t] = last.pre.secrets[t]
       /\ \A i \in DOMAIN calls :
             /\ calls[i].op \in {"delete_secret", "delete_secret_import"} =>
                   Inside(calls[i].env, Canon(calls[i].path))
             /\ calls[i].op = "delete_folder" => Inside(calls[i].env, calls[i].ipath)
             /\ calls[i].op \in {"delete_secret", "delete_secret_import", "delete_folder",
                                 "list_secrets", "list_secret_imports", "list_folders"}

\* The folder bi-backend of common was deleted with all beneath it; the
\* folder bi beside it, the folder services above it and the folder
\* bi-backend of dev are where they were.
C39_Witness ==
    /\ IsDelete /\ last.ret /\ last.args[1] = "common"
    /\ DelTarget = <<"services", "bi-backend">>
    /\ \A f \in DOMAIN rfolders : ~Inside(f[1], f[2])
    /\ Cardinality(DOMAIN rfolders) = Cardinality(DOMAIN last.pre.folders) - 2
    /\ <<"common", <<"services", "bi">>>> \in DOMAIN rfolders
    /\ <<"common", <<"services", "bi">>, "B">> \in DOMAIN rsecrets

\* The cleanup deleted the deprecated folders of common and of prod
C39_WitnessCleanup ==
    /\ IsCleanup /\ ~last.dry_run /\ last.stats.deleted = 2
    /\ \A f \in DOMAIN rfolders : ~Inside(f[1], f[2])
    /\ <<"dev", <<"services", "bi-backend">>>> \in DOMAIN rfolders
    /\ <<"prod", <<"services", "bi">>>> \in DOMAIN rfolders

\* C40: delete_folder_recursive called with the root, written as "/", as
\* the empty path or as slashes only, returns not-deleted without raising
\* and without a single request, and the remote is as it was; and no call
\* ever asks for the deletion of the root.
C40_RootNeverDeleted ==
    IsDelete =>
       /\ DelTarget = <<>> =>
             /\ ~last.ret /\ ~last.raised
             /\ calls = <<>>
             /\ Remote = last.pre
       /\ \A i \in DeleteFolderIdx : calls[i].ipath # <<>>

\* The call on "//", on a remote with folders and secrets at the root
C40_Witness ==
    /\ IsDelete /\ last.args = <<"common", <<"/", "/">>>>
    /\ ~last.ret /\ calls = <<>>
    /\ <<"common", <<>>, "A">> \in DOMAIN rsecrets
    /\ <<"common", <<"services">>>> \in DOMAIN rfolders

====
